---- MODULE Spec2Model ----
(***************************************************************************)
(* A model of the core of the mica scripting language runtime:             *)
(*   - Upvalue            (mica-language/src/value.rs)                     *)
(*   - the two value encodings (value/impls/portable.rs, value/nanbox.rs)  *)
(*   - the code generator (mica-language/src/codegen.rs)                   *)
(* Each subsystem has its own specification (SpecUpvalue, SpecValue,       *)
(* SpecCodegen) over its own variables; the other variables stay put.      *)
(***************************************************************************)
EXTENDS Integers, Sequences, FiniteSets, TLC

VARIABLES
    \* ---- Upvalue (value.rs) ----
    stack,        \* the value stack slots an upvalue may point at
    upvalues,     \* the Upvalue cells: [ptr, closed]
    got,          \* the result of the last get() / stack read
    uvLast,       \* the last operation performed on the upvalue subsystem
    written,      \* history: per upvalue, the value last written to the variable since close
    \* ---- value encodings (portable.rs, nanbox.rs) ----
    boxes,        \* nanbox: the outer Rc boxes made by new_object_nan: [inner, strong]
    vals,         \* the values built so far, each in both encodings: [p, n, from]
    valLast,      \* the last operation performed on the value subsystem
    dropped,      \* the values (indices of vals) that were dropped
    freed,        \* nanbox: the outer boxes deallocated so far, in order
    \* ---- code generator (codegen.rs) ----
    globals,      \* Environment: the names of the globals, by slot
    functions,    \* Environment: the functions created by create_function
    gens,         \* the CodeGenerators, outermost first; gens[d-1].locals is
                  \* the parent of gens[d].locals; the last one is running
    open,         \* the AST nodes whose code generation is in progress
    mode,         \* where the running handler stands: "node", "list", "ret"
    status,       \* [kind, error, name]: running, ok, error or panic
    nodes,        \* the number of AST nodes visited
    cgLast,       \* the last handler step taken, with the place it resolved
    decls,        \* history: per generator, the locals created in open scopes
    captures,     \* history: per generator, the <<name, upvalue index>> its lookups returned
    marks,        \* history: per generator and open scope, the counts when it was pushed
    spans,        \* history: per generator, where the code of each node and node list
                  \* begins (open) and the <<begin, end>> of those that returned (done)
    \* ---- Engine (hl/engine.rs) ----
    eGlobals,     \* Engine::env: the names of the globals, by slot
    eValues,      \* Engine::globals: the values of the globals that were set, by slot
    eMethods,     \* Engine::env: the interned method signatures, by method index
    eLast,        \* the last Engine operation and what it returned
    eSet,         \* history: per name, the value of the last set (Uninit when none)
    \* ---- TypeBuilder (mica-hl/src/types.rs) ----
    builder,      \* the TypeBuilder under construction
    tMethods,     \* Environment: the interned method signatures, by method index
    tFunctions,   \* Environment: the functions, by function id
    tLast         \* the last build: the builder it consumed and what it returned
upVars == <<stack, upvalues, got, uvLast, written>>
valVars == <<boxes, vals, valLast, dropped, freed>>
cgVars == <<globals, functions, gens, open, mode, status, nodes, cgLast, decls, captures, marks, spans>>
engVars == <<eGlobals, eValues, eMethods, eLast, eSet>>
tyVars == <<builder, tMethods, tFunctions, tLast>>

\* What an operation of one subsystem leaves alone: the other subsystems.
UpFrame == UNCHANGED <<valVars, cgVars, engVars, tyVars>>
ValFrame == UNCHANGED <<upVars, cgVars, engVars, tyVars>>
CgFrame == UNCHANGED <<upVars, valVars, engVars, tyVars>>
EngFrame == UNCHANGED <<upVars, valVars, cgVars, tyVars>>
TyFrame == UNCHANGED <<upVars, valVars, cgVars, engVars>>

(***************************************************************************)
(*                          Upvalue  (value.rs)                            *)
(***************************************************************************)

\* Number of stack slots of the modelled frame.
NumSlots == 2
\* Number of upvalue cells.
NumUpvalues == 2
\* Number of distinct non-nil values written.
NumValues == 2

Slots == 1..NumSlots
UpIds == 1..NumUpvalues

\* Value::Nil, the Default of Value (value.rs:149-153).
ValueDefault == [kind |-> "Nil", val |-> 0]
\* The content of MaybeUninit::uninit().
Uninit == [kind |-> "Uninit", val |-> 0]
NumberValue(n) == [kind |-> "Number", val |-> n]
UpValueSet == {ValueDefault} \cup {NumberValue(n) : n \in 1..NumValues}

PtrNone == [kind |-> "None", slot |-> 0]
PtrStack(i) == [kind |-> "Stack", slot |-> i]
PtrClosed == [kind |-> "Closed", slot |-> 0]

IsCreated(u) == upvalues[u].ptr.kind # "None"
IsOpen(u) == upvalues[u].ptr.kind = "Stack"
IsClosed(u) == upvalues[u].ptr.kind = "Closed"

\* Upvalue::new: ptr = var, closed = uninit.
Upvalue_new(i) == [ptr |-> PtrStack(i), closed |-> Uninit]

\* Reads through a pointer: the stack slot or the upvalue's own closed field.
Deref(up, stk) ==
    IF up.ptr.kind = "Stack" THEN stk[up.ptr.slot] ELSE up.closed

\* Upvalue::get: (*self.ptr.get()).as_ref()
Upvalue_get(up, stk) == Deref(up, stk)

\* Mutant: set() always writes the upvalue's own storage.
Upvalue_set_Closed(up, stk, v) ==
    [up |-> [up EXCEPT !.closed = v], stk |-> stk]

\* Upvalue::set: *(*self.ptr.get()).as_ptr() = value.
\* Returns the new upvalue cell and the new stack.
Upvalue_set(up, stk, v) ==
    IF up.ptr.kind = "Stack"
    THEN [up |-> up, stk |-> [stk EXCEPT ![up.ptr.slot] = v]]
    ELSE [up |-> [up EXCEPT !.closed = v], stk |-> stk]

\* Mutant: close() moves the value but leaves ptr aimed at the stack slot.
Upvalue_close_NoRetarget(up, stk) ==
    [up |-> [up EXCEPT !.closed = Deref(up, stk)], stk |-> stk]

\* Mutant: close() stores what the variable holds after mem::take emptied it.
Upvalue_close_AfterTake(up, stk) ==
    LET taken == Upvalue_set(up, stk, ValueDefault)
    IN  [up |-> [ptr |-> PtrClosed, closed |-> Deref(taken.up, taken.stk)],
         stk |-> taken.stk]

\* Upvalue::close: value = mem::take(ptr.as_mut()); ptr = closed.write(value).
Upvalue_close(up, stk) ==
    LET value == Deref(up, stk)
        taken == Upvalue_set(up, stk, ValueDefault)
    IN  [up |-> [ptr |-> PtrClosed, closed |-> value], stk |-> taken.stk]

UpInit ==
    /\ stack = [i \in Slots |-> ValueDefault]
    /\ upvalues = [u \in UpIds |-> [ptr |-> PtrNone, closed |-> Uninit]]
    /\ got = ValueDefault
    /\ uvLast = [op |-> "init", u |-> 0, slot |-> 0, val |-> ValueDefault]
    /\ written = [u \in UpIds |-> Uninit]

\* Upvalue::new over stack slot i.
UpNew(u, i) ==
    /\ UpFrame
    /\ ~IsCreated(u)
    /\ upvalues' = [upvalues EXCEPT ![u] = Upvalue_new(i)]
    /\ uvLast' = [op |-> "new", u |-> u, slot |-> i, val |-> ValueDefault]
    /\ UNCHANGED <<stack, got, written>>

\* Upvalue::close.  Every upvalue is a separate cell, so only `u` and the
\* slot it pointed at change.
UpClose(u) ==
    /\ UpFrame
    /\ IsCreated(u)
    /\ LET r == Upvalue_close(upvalues[u], stack)
       IN  /\ upvalues' = [upvalues EXCEPT ![u] = r.up]
           /\ stack' = r.stk
           /\ written' = [written EXCEPT ![u] = Deref(upvalues[u], stack)]
           /\ uvLast' = [op |-> "close", u |-> u, slot |-> upvalues[u].ptr.slot,
                         val |-> Deref(upvalues[u], stack)]
    /\ UNCHANGED got

\* Upvalue::get.
UpGet(u) ==
    /\ UpFrame
    /\ IsCreated(u)
    /\ got' = Upvalue_get(upvalues[u], stack)
    /\ uvLast' = [op |-> "get", u |-> u, slot |-> upvalues[u].ptr.slot, val |-> got']
    /\ UNCHANGED <<stack, upvalues, written>>

\* Upvalue::set.
UpSet(u, v) ==
    /\ UpFrame
    /\ IsCreated(u)
    /\ LET r == Upvalue_set(upvalues[u], stack, v)
       IN  /\ upvalues' = [upvalues EXCEPT ![u] = r.up]
           /\ stack' = r.stk
    /\ written' = [written EXCEPT ![u] = IF IsClosed(u) THEN v ELSE @]
    /\ uvLast' = [op |-> "set", u |-> u, slot |-> upvalues[u].ptr.slot, val |-> v]
    /\ UNCHANGED got

\* The enclosing function (or, after it returned, whoever reuses the slot)
\* writes the stack slot directly.
StackWrite(i, v) ==
    /\ UpFrame
    /\ stack' = [stack EXCEPT ![i] = v]
    /\ uvLast' = [op |-> "stack_write", u |-> 0, slot |-> i, val |-> v]
    /\ UNCHANGED <<upvalues, got, written>>

\* The enclosing function reads the stack slot directly.
StackRead(i) ==
    /\ UpFrame
    /\ got' = stack[i]
    /\ uvLast' = [op |-> "stack_read", u |-> 0, slot |-> i, val |-> got']
    /\ UNCHANGED <<stack, upvalues, written>>

UpNext ==
    \/ \E u \in UpIds, i \in Slots : UpNew(u, i)
    \/ \E u \in UpIds : UpClose(u)
    \/ \E u \in UpIds : UpGet(u)
    \/ \E u \in UpIds, v \in UpValueSet : UpSet(u, v)
    \/ \E i \in Slots, v \in UpValueSet : StackWrite(i, v)
    \/ \E i \in Slots : StackRead(i)


(***************************************************************************)
(*        Value encodings  (value/impls/portable.rs, value/nanbox.rs)      *)
(***************************************************************************)

\* Heap objects per object kind.
NumObjects == 3
\* Values built in one run.
MaxVals == 3

\* A 64-bit word is held as its three bit fields:
\*   sign    = bit 63, q = bits 62..50 (the 13 bits of QNAN), payload = bits 49..0.
Word(sign, q, payload) == [sign |-> sign, q |-> q, payload |-> payload]

\* QNAN = 0b1111111111111 << 50: all 13 bits of the q field.
QNAN == 8191
SIGN_ENUM == 0
SIGN_OBJECT == 1
ENUM_NIL == 1
ENUM_FALSE == 2
ENUM_TRUE == 3
OBJECT_STRING == 0
OBJECT_FUNCTION == 1
OBJECT_STRUCT == 2
OBJECT_USER_DATA == 3
\* OBJECT_TAG_BITS = 0b111: the tag is the word modulo 8.
OBJECT_TAG_MOD == 8
\* Alignment of an Rc allocation (_size_and_alignment_checks).
RcAlign == 8
\* The q field of f64 1.0 (0x3FF0_0000_0000_0000) and of the default NaN
\* (0x7FF8_0000_0000_0000).
FloatOneQ == 4092
FloatNaNQ == 8190
\* The q fields at and above this one have an all-ones exponent (inf or NaN).
FloatExpAllOnesQ == 8188

RECURSIVE BitOr(_, _)
\* Bitwise or of two naturals.
BitOr(a, b) ==
    IF a = 0 THEN b
    ELSE IF b = 0 THEN a
    ELSE (IF a % 2 = 1 \/ b % 2 = 1 THEN 1 ELSE 0) + 2 * BitOr(a \div 2, b \div 2)

\* The heap objects a value may carry: a handle is the identity of the
\* pointed-to object (Rc<T> / GcRaw<T>).
ObjectKinds == {"String", "Function", "Struct", "UserData"}
Handles == [kind : ObjectKinds, id : 1..NumObjects]
NoHandle == [kind |-> "None", id |-> 0]
\* The contents of a string object: objects 1 and 2 hold equal strings.
StringContent(h) == (h.id + 1) \div 2

\* The f64 bit patterns passed to new_number.
FloatBits ==
    { Word(0, 0, 0), Word(1, 0, 0), Word(0, FloatOneQ, 0),
      Word(0, FloatNaNQ, 0), Word(0, QNAN, 0), Word(0, QNAN, ENUM_NIL),
      Word(0, QNAN, ENUM_TRUE + 1) }

\* f64 == on bit patterns: a NaN equals nothing, +0 equals -0.
FloatIsNaN(w) == w.q >= FloatExpAllOnesQ /\ (w.q % 4 # 0 \/ w.payload # 0)
FloatIsZero(w) == w.q = 0 /\ w.payload = 0
FloatEq(a, b) ==
    /\ ~FloatIsNaN(a)
    /\ ~FloatIsNaN(b)
    /\ (a = b \/ (FloatIsZero(a) /\ FloatIsZero(b)))

\* ---- portable.rs ----
PValue(kind, f, h) == [kind |-> kind, f |-> f, h |-> h]
Portable_new_nil == PValue("Nil", Word(0, 0, 0), NoHandle)
Portable_new_boolean(b) == PValue(IF b THEN "True" ELSE "False", Word(0, 0, 0), NoHandle)
Portable_new_number(n) == PValue("Number", n, NoHandle)
Portable_new_string(s) == PValue("String", Word(0, 0, 0), s)
Portable_new_function(f) == PValue("Function", Word(0, 0, 0), f)
Portable_new_struct(s) == PValue("Struct", Word(0, 0, 0), s)
Portable_new_user_data(u) == PValue("UserData", Word(0, 0, 0), u)

Portable_kind(v) == IF v.kind \in {"True", "False"} THEN "Boolean" ELSE v.kind

\* Mutant: the fall-through arm forgets to compare the discriminants.
Portable_eq_NoDiscriminant(l, r) ==
    IF l.kind = "Number" /\ r.kind = "Number" THEN FloatEq(l.f, r.f)
    ELSE IF l.kind = "String" /\ r.kind = "String"
         THEN StringContent(l.h) = StringContent(r.h)
    ELSE IF l.kind = "Function" /\ r.kind = "Function" THEN l.h = r.h
    ELSE IF l.kind = "Struct" /\ r.kind = "Struct" THEN l.h = r.h
    ELSE TRUE

\* impl PartialEq for ValueImpl (portable).
Portable_eq(l, r) ==
    IF l.kind = "Number" /\ r.kind = "Number" THEN FloatEq(l.f, r.f)
    ELSE IF l.kind = "String" /\ r.kind = "String"
         THEN StringContent(l.h) = StringContent(r.h)
    ELSE IF l.kind = "Function" /\ r.kind = "Function" THEN l.h = r.h
    ELSE IF l.kind = "Struct" /\ r.kind = "Struct" THEN l.h = r.h
    ELSE l.kind = r.kind

\* ---- value.rs: enum Value ----
\* The variants of enum Value; a Value is held as the PValue of its variant.
ValueVariants == {"Nil", "False", "True", "Number", "String", "Function"}

\* Value::typ.
Value_typ(v) == IF v.kind \in {"True", "False"} THEN "Boolean" ELSE v.kind

\* impl PartialEq for Value: strings by contents, functions by Rc::ptr_eq.
Value_eq(l, r) ==
    IF l.kind = "Number" /\ r.kind = "Number" THEN FloatEq(l.f, r.f)
    ELSE IF l.kind = "String" /\ r.kind = "String"
         THEN StringContent(l.h) = StringContent(r.h)
    ELSE IF l.kind = "Function" /\ r.kind = "Function" THEN l.h = r.h
    ELSE l.kind = r.kind

\* f64::partial_cmp on bit patterns: None when either is a NaN.
FloatLess(a, b) ==
    LET below(x, y) == x.q < y.q \/ (x.q = y.q /\ x.payload < y.payload)
    IN  IF a.sign # b.sign THEN a.sign = 1
        ELSE IF a.sign = 0 THEN below(a, b) ELSE below(b, a)
FloatPartialCmp(a, b) ==
    IF FloatIsNaN(a) \/ FloatIsNaN(b) THEN "None"
    ELSE IF FloatEq(a, b) THEN "Equal"
    ELSE IF FloatLess(a, b) THEN "Less" ELSE "Greater"

\* Ord::cmp of two keys (booleans as 0 / 1, string contents).
OrdCmp(x, y) == IF x = y THEN "Equal" ELSE IF x < y THEN "Less" ELSE "Greater"

\* Value::try_partial_cmp: "TypeError" for Err(ErrorKind::TypeError), "None"
\* for Ok(None), otherwise the Ordering of Ok(Some(ordering)).
Value_try_partial_cmp(l, r) ==
    IF Value_typ(l) # Value_typ(r) THEN "TypeError"
    ELSE CASE l.kind = "Nil" -> "Equal"
           [] l.kind \in {"False", "True"} ->
                  OrdCmp(IF l.kind = "True" THEN 1 ELSE 0, IF r.kind = "True" THEN 1 ELSE 0)
           [] l.kind = "Number" -> FloatPartialCmp(l.f, r.f)
           [] l.kind = "String" -> OrdCmp(StringContent(l.h), StringContent(r.h))
           [] l.kind = "Function" -> "None"

\* ---- nanbox.rs ----
\* nan_bits (the assert payload < 2^50 cannot fail for the addresses modelled).
Nanbox_nan_bits(sign, payload) == Word(sign, QNAN, payload)
Nanbox_new_nan(sign, payload) == Nanbox_nan_bits(sign, payload)
Nanbox_enum_nan_bits(payload) == Nanbox_nan_bits(SIGN_ENUM, payload)
NIL_BITS == Nanbox_enum_nan_bits(ENUM_NIL)
FALSE_BITS == Nanbox_enum_nan_bits(ENUM_FALSE)
TRUE_BITS == Nanbox_enum_nan_bits(ENUM_TRUE)

\* The address Rc::into_raw returns for the k-th outer box.
BoxAddr(k) == RcAlign * k
BoxOf(pointer) == pointer \div RcAlign

\* Mutant: the object word is built from the inner handle's identity instead
\* of a fresh outer box.
Nanbox_new_object_nan_Inner(tag, rc, bxs) ==
    [word |-> Nanbox_new_nan(SIGN_OBJECT, BitOr(RcAlign * rc.id, tag)), boxes |-> bxs]

\* new_object_nan: outer = Rc::new(rc); pointer = Rc::into_raw(outer);
\* new_nan(SIGN_OBJECT, pointer | tag).  Returns the word and the boxes.
Nanbox_new_object_nan(tag, rc, bxs) ==
    LET outer == Len(bxs) + 1
        pointer == BoxAddr(outer)
    IN  [word |-> Nanbox_new_nan(SIGN_OBJECT, BitOr(pointer, tag)),
         boxes |-> Append(bxs, [inner |-> rc, strong |-> 1])]

Nanbox_is_number(w) == w.q # QNAN \/ w.payload = 0
Nanbox_is_object(w) == w.sign = 1 /\ ~Nanbox_is_number(w)
Nanbox_object_tag(w) == w.payload % OBJECT_TAG_MOD
\* Mutant: the tag bits are not masked out of the pointer.
Nanbox_object_pointer_NoMask(w) == w.payload
Nanbox_object_pointer(w) == w.payload - (w.payload % OBJECT_TAG_MOD)
\* as_rc: the inner Rc<T> behind the outer box.
Nanbox_as_rc(w, bxs) == bxs[BoxOf(Nanbox_object_pointer(w))].inner

Nanbox_new_nil == NIL_BITS
Nanbox_new_boolean(b) == IF b THEN TRUE_BITS ELSE FALSE_BITS
Nanbox_new_number(n) == n
Nanbox_new_string(s, bxs) == Nanbox_new_object_nan(OBJECT_STRING, s, bxs)
Nanbox_new_function(f, bxs) == Nanbox_new_object_nan(OBJECT_FUNCTION, f, bxs)
Nanbox_new_struct(s, bxs) == Nanbox_new_object_nan(OBJECT_STRUCT, s, bxs)
Nanbox_new_user_data(u, bxs) == Nanbox_new_object_nan(OBJECT_USER_DATA, u, bxs)

\* kind(): an object tag above 3 is unreachable_unchecked.
Nanbox_kind(w) ==
    IF w = NIL_BITS THEN "Nil"
    ELSE IF w = TRUE_BITS \/ w = FALSE_BITS THEN "Boolean"
    ELSE IF Nanbox_is_object(w)
         THEN CASE Nanbox_object_tag(w) = OBJECT_STRING -> "String"
                [] Nanbox_object_tag(w) = OBJECT_FUNCTION -> "Function"
                [] Nanbox_object_tag(w) = OBJECT_STRUCT -> "Struct"
                [] Nanbox_object_tag(w) = OBJECT_USER_DATA -> "UserData"
                [] OTHER -> "Undefined"
    ELSE "Number"

\* impl PartialEq for ValueImpl (nanbox).
Nanbox_eq(a, b, bxs) ==
    IF Nanbox_is_number(a) /\ Nanbox_is_number(b) THEN FloatEq(a, b)
    ELSE IF /\ Nanbox_is_object(a)
            /\ Nanbox_is_object(b)
            /\ Nanbox_object_tag(a) = Nanbox_object_tag(b)
            /\ Nanbox_object_tag(a) = OBJECT_STRING
         THEN StringContent(Nanbox_as_rc(a, bxs)) = StringContent(Nanbox_as_rc(b, bxs))
    ELSE a = b

\* Mutant: clone copies the word without incrementing the strong count.
Nanbox_clone_NoIncrement(w, bxs) == [word |-> w, boxes |-> bxs]

\* impl Clone for ValueImpl (nanbox): increment_strong_count, then copy the word.
Nanbox_clone(w, bxs) ==
    IF Nanbox_is_object(w)
    THEN [word |-> w,
          boxes |-> [bxs EXCEPT ![BoxOf(Nanbox_object_pointer(w))].strong = @ + 1]]
    ELSE [word |-> w, boxes |-> bxs]

\* drop_object: Rc::from_raw(pointer) is dropped, which decrements the strong
\* count of the outer box and deallocates it (with the inner Rc) at zero.
Nanbox_drop_object(w, bxs, fr) ==
    LET k == BoxOf(Nanbox_object_pointer(w))
        strong == bxs[k].strong - 1
    IN  [boxes |-> [bxs EXCEPT ![k].strong = strong],
         freed |-> IF strong = 0 THEN Append(fr, k) ELSE fr]

\* impl Drop for ValueImpl (nanbox).
Nanbox_drop(w, bxs, fr) ==
    IF Nanbox_is_object(w) THEN Nanbox_drop_object(w, bxs, fr)
    ELSE [boxes |-> bxs, freed |-> fr]

\* derive(Clone, Copy) for ValueImpl (portable).
Portable_clone(v) == v

ValInit ==
    /\ boxes = <<>>
    /\ vals = <<>>
    /\ valLast = [op |-> "init", arg |-> 0]
    /\ dropped = {}
    /\ freed = <<>>

\* A value built by the same constructor call in both encodings.
Built(p, n, from) == [p |-> p, n |-> n, from |-> from]

ValNewNil ==
    /\ ValFrame
    /\ Len(vals) < MaxVals
    /\ vals' = Append(vals, Built(Portable_new_nil, Nanbox_new_nil, 0))
    /\ valLast' = [op |-> "new_nil", arg |-> 0]
    /\ UNCHANGED <<boxes, dropped, freed>>

ValNewBoolean(b) ==
    /\ ValFrame
    /\ Len(vals) < MaxVals
    /\ vals' = Append(vals, Built(Portable_new_boolean(b), Nanbox_new_boolean(b), 0))
    /\ valLast' = [op |-> "new_boolean", arg |-> 0]
    /\ UNCHANGED <<boxes, dropped, freed>>

ValNewNumber(n) ==
    /\ ValFrame
    /\ Len(vals) < MaxVals
    /\ vals' = Append(vals, Built(Portable_new_number(n), Nanbox_new_number(n), 0))
    /\ valLast' = [op |-> "new_number", arg |-> 0]
    /\ UNCHANGED <<boxes, dropped, freed>>

\* new_string / new_function / new_struct / new_user_data of handle h.
ValNewObject(h) ==
    /\ ValFrame
    /\ Len(vals) < MaxVals
    /\ LET r == CASE h.kind = "String" -> Nanbox_new_string(h, boxes)
                  [] h.kind = "Function" -> Nanbox_new_function(h, boxes)
                  [] h.kind = "Struct" -> Nanbox_new_struct(h, boxes)
                  [] h.kind = "UserData" -> Nanbox_new_user_data(h, boxes)
           p == CASE h.kind = "String" -> Portable_new_string(h)
                  [] h.kind = "Function" -> Portable_new_function(h)
                  [] h.kind = "Struct" -> Portable_new_struct(h)
                  [] h.kind = "UserData" -> Portable_new_user_data(h)
       IN  /\ vals' = Append(vals, Built(p, r.word, 0))
           /\ boxes' = r.boxes
    /\ valLast' = [op |-> "new_object", arg |-> 0]
    /\ UNCHANGED <<dropped, freed>>

\* The values that were built and not dropped since.
Live == (1..Len(vals)) \ dropped

\* clone() of the i-th value, in both encodings.
ValClone(i) ==
    /\ ValFrame
    /\ Len(vals) < MaxVals
    /\ i \in Live
    /\ LET r == Nanbox_clone(vals[i].n, boxes)
       IN  /\ vals' = Append(vals, Built(Portable_clone(vals[i].p), r.word, i))
           /\ boxes' = r.boxes
    /\ valLast' = [op |-> "clone", arg |-> i]
    /\ UNCHANGED <<dropped, freed>>

\* The i-th value goes out of scope: drop() in the compact encoding (the
\* portable encoding is Copy and has no Drop).
ValDrop(i) ==
    /\ ValFrame
    /\ i \in Live
    /\ LET r == Nanbox_drop(vals[i].n, boxes, freed)
       IN  /\ boxes' = r.boxes
           /\ freed' = r.freed
    /\ dropped' = dropped \cup {i}
    /\ valLast' = [op |-> "drop", arg |-> i]
    /\ UNCHANGED vals

ValNext ==
    \/ ValNewNil
    \/ \E b \in BOOLEAN : ValNewBoolean(b)
    \/ \E n \in FloatBits : ValNewNumber(n)
    \/ \E h \in Handles : ValNewObject(h)
    \/ \E i \in 1..MaxVals : ValClone(i)
    \/ \E i \in 1..MaxVals : ValDrop(i)

(***************************************************************************)
(*                     Code generator  (codegen.rs)                        *)
(***************************************************************************)

\* AST nodes visited in one run.
MaxNodes == 4
\* The largest Opr24 (2^24 - 1) and the largest u16.
Opr24Max == 16777215
U16Max == 65535

\* The identifiers of the compiled script.
Names == {"x", "y"}
\* A function declaration without a name.
NoName == "<anonymous>"
\* An assignment target that is not an identifier.
NonIdentifier == "<expr>"
\* The parameter lists of the compiled functions.
ParamLists == {<<>>, <<"x", "y">>}
\* The function declarations of the compiled script: a name and parameters.
FuncHeads == ({NoName} \X ParamLists) \cup {<<"x", <<>>>>}
LiteralKinds == {"Nil", "Number"}

\* enum VariablePlace, and None for Option::None.
Place(kind, slot) == [kind |-> kind, slot |-> slot]
Global(slot) == Place("Global", slot)
Local(slot) == Place("Local", slot)
Upvalue(slot) == Place("Upvalue", slot)
None == Place("None", 0)

\* Opr24::new succeeds.
Opr24_ok(x) == x <= Opr24Max

\* An instruction (or an inline payload) of a chunk.
Op(op, arg) == [op |-> op, arg |-> arg]

\* Chunk::push appends an instruction; its offset is the length before.
Chunk_push(chunk, op) == Append(chunk, op)
\* Chunk::len.
Chunk_len(chunk) == Len(chunk)
\* Chunk::patch overwrites the instruction at `offset`.
Chunk_patch(chunk, offset, op) == [chunk EXCEPT ![offset + 1] = op]
\* Opcode::jump_forward / jump_forward_if_falsy / jump_backward: the operand
\* is the distance between the two offsets.
Opcode_jump_forward(from, to) == Op("JumpForward", to - from)
Opcode_jump_forward_if_falsy(from, to) == Op("JumpForwardIfFalsy", to - from)
Opcode_jump_backward(from, to) == Op("JumpBackward", from - to)

\* Environment::create_global: one slot for each unique name (hl/engine.rs:
\* "Too many globals with unique names were created"); a new name takes the
\* next slot of the globals vector.
Env_create_global(gl, name) ==
    LET found == {i \in 1..Len(gl) : gl[i] = name}
    IN  IF found # {}
        THEN [globals |-> gl, slot |-> (CHOOSE i \in found : TRUE) - 1, err |-> ""]
        ELSE IF Opr24_ok(Len(gl))
        THEN [globals |-> Append(gl, name), slot |-> Len(gl), err |-> ""]
        ELSE [globals |-> gl, slot |-> 0, err |-> "TooManyGlobals"]

\* Environment::get_global: the slot of the global of that name, if any.
Env_get_global(gl, name) ==
    LET found == {i \in 1..Len(gl) : gl[i] = name}
    IN  IF found = {} THEN None
        ELSE Global((CHOOSE i \in found : \A j \in found : j <= i) - 1)

\* Environment::create_function.
Env_create_function(fns, f) ==
    IF Opr24_ok(Len(fns))
    THEN [functions |-> Append(fns, f), id |-> Len(fns), err |-> ""]
    ELSE [functions |-> fns, id |-> 0, err |-> "TooManyFunctions"]

\* struct Scope (Default).
Scope_default == [variables |-> <<>>, allocated_variable_count |-> 0]

\* CodeGenerator::new with Locals::default().
CodeGenerator_new ==
    [scopes |-> <<>>, local_count |-> 0, allocated_local_count |-> 0,
     captured_locals |-> {}, captured_upvalues |-> {}, upvalue_indices |-> <<>>,
     breakable_blocks |-> <<>>, chunk |-> <<>>, preallocate_stack_slots |-> 0]

\* HashMap::insert.
MapInsert(m, k, v) == [n \in DOMAIN m \cup {k} |-> IF n = k THEN v ELSE m[n]]

\* Mutant: the new local takes the slot after the next free one.
Locals_create_local_SlotOff(L, name, allocation) ==
    LET slot == L.local_count + 1
        top == Len(L.scopes)
        alloc == IF allocation = "Allocate" THEN 1 ELSE 0
    IN  [locals |-> [L EXCEPT
                  !.scopes[top].variables =
                      MapInsert(@, name, [stack_slot |-> slot, allocation |-> allocation]),
                  !.scopes[top].allocated_variable_count = @ + alloc,
                  !.local_count = @ + 1,
                  !.allocated_local_count = @ + alloc],
         place |-> Local(slot), err |-> ""]

\* Locals::create_local.
Locals_create_local(L, name, allocation) ==
    LET slot == L.local_count
        top == Len(L.scopes)
        alloc == IF allocation = "Allocate" THEN 1 ELSE 0
    IN  IF ~Opr24_ok(slot)
        THEN [locals |-> L, place |-> None, err |-> "TooManyLocals"]
        ELSE [locals |-> [L EXCEPT
                  !.scopes[top].variables =
                      MapInsert(@, name, [stack_slot |-> slot, allocation |-> allocation]),
                  !.scopes[top].allocated_variable_count = @ + alloc,
                  !.local_count = @ + 1,
                  !.allocated_local_count = @ + alloc],
              place |-> Local(slot), err |-> ""]

\* Mutant: the scopes are searched outermost first.
Locals_lookup_own_Outermost(L, name) ==
    LET has == {k \in 1..Len(L.scopes) : name \in DOMAIN L.scopes[k].variables}
    IN  IF has = {} THEN None
        ELSE Local(L.scopes[CHOOSE k \in has : \A j \in has : k <= j].variables[name].stack_slot)

\* Locals::lookup, its first loop: the innermost scope of this function that
\* holds the name.
Locals_lookup_own(L, name) ==
    LET has == {k \in 1..Len(L.scopes) : name \in DOMAIN L.scopes[k].variables}
    IN  IF has = {} THEN None
        ELSE Local(L.scopes[CHOOSE k \in has : \A j \in has : j <= k].variables[name].stack_slot)

\* Locals::close_over.
Locals_close_over(L, slot) ==
    LET index == Cardinality(DOMAIN L.upvalue_indices)
    IN  IF ~Opr24_ok(index)
        THEN [locals |-> L, index |-> 0, err |-> "TooManyCaptures"]
        ELSE [locals |-> [L EXCEPT !.upvalue_indices = MapInsert(@, slot, index)],
              index |-> index, err |-> ""]

RECURSIVE Locals_lookup(_, _, _)
\* Locals::lookup on gs[d], whose parent is gs[d-1].  Returns the generators
\* (a lookup may capture in the parents), the place found (None when there
\* is none) and err: "" or an ErrorKind, or "todo" for the todo!() panic.
Locals_lookup(gs, d, name) ==
    LET own == Locals_lookup_own(gs[d], name)
    IN  IF own # None THEN [gs |-> gs, res |-> own, err |-> ""]
        ELSE IF d = 1 THEN [gs |-> gs, res |-> None, err |-> ""]
        ELSE LET r == Locals_lookup(gs, d - 1, name)
             IN  IF r.err # "" \/ r.res = None THEN r
                 ELSE IF r.res.kind = "Local"
                 THEN LET c == Locals_close_over(r.gs[d - 1], r.res.slot)
                      IN  IF c.err # ""
                          THEN [gs |-> r.gs, res |-> None, err |-> c.err]
                          ELSE [gs |-> [r.gs EXCEPT
                                           ![d - 1] = c.locals,
                                           ![d].captured_locals = @ \cup {c.index}],
                                res |-> Upvalue(c.index), err |-> ""]
                 ELSE [gs |-> r.gs, res |-> None, err |-> "todo"]

\* Locals::push_scope.
Locals_push_scope(L) == [L EXCEPT !.scopes = Append(@, Scope_default)]

\* Mutant: the scope's variables are forgotten but the scope stays on the stack.
Locals_pop_scope_KeepsScope(L) ==
    LET scope == L.scopes[Len(L.scopes)]
    IN  [L EXCEPT
            !.scopes[Len(L.scopes)] = Scope_default,
            !.local_count = @ - Cardinality(DOMAIN scope.variables),
            !.allocated_local_count = @ - scope.allocated_variable_count]

\* Locals::pop_scope.
Locals_pop_scope(L) ==
    LET scope == L.scopes[Len(L.scopes)]
    IN  [L EXCEPT
            !.scopes = SubSeq(@, 1, Len(@) - 1),
            !.local_count = @ - Cardinality(DOMAIN scope.variables),
            !.allocated_local_count = @ - scope.allocated_variable_count]

\* Mutant: preallocate_stack_slots follows local_count, which counts the
\* parameters as well.
CodeGenerator_create_variable_CountsInherit(g, gl, name, allocation) ==
    IF g.scopes # <<>>
    THEN LET r == Locals_create_local(g, name, allocation)
             most == IF r.locals.local_count > g.preallocate_stack_slots
                     THEN r.locals.local_count
                     ELSE g.preallocate_stack_slots
         IN  [gen |-> [r.locals EXCEPT !.preallocate_stack_slots = most],
              globals |-> gl, place |-> r.place, err |-> ""]
    ELSE LET r == Env_create_global(gl, name)
         IN  [gen |-> g, globals |-> r.globals,
              place |-> IF r.err = "" THEN Global(r.slot) ELSE None, err |-> r.err]

\* CodeGenerator::create_variable on generator g.
CodeGenerator_create_variable(g, gl, name, allocation) ==
    IF g.scopes # <<>>
    THEN LET r == Locals_create_local(g, name, allocation)
             most == IF r.locals.allocated_local_count > g.preallocate_stack_slots
                     THEN r.locals.allocated_local_count
                     ELSE g.preallocate_stack_slots
         IN  IF r.err # ""
             THEN [gen |-> g, globals |-> gl, place |-> None, err |-> r.err]
             ELSE [gen |-> [r.locals EXCEPT !.preallocate_stack_slots = most],
                   globals |-> gl, place |-> r.place, err |-> ""]
    ELSE LET r == Env_create_global(gl, name)
         IN  [gen |-> g, globals |-> r.globals,
              place |-> IF r.err = "" THEN Global(r.slot) ELSE None, err |-> r.err]

\* Mutant: the globals are never consulted.
CodeGenerator_lookup_variable_LocalsOnly(gs, gl, name) ==
    Locals_lookup(gs, Len(gs), name)

\* Mutant: the globals are consulted before the locals.
CodeGenerator_lookup_variable_GlobalsFirst(gs, gl, name) ==
    IF Env_get_global(gl, name) # None
    THEN [gs |-> gs, res |-> Env_get_global(gl, name), err |-> ""]
    ELSE Locals_lookup(gs, Len(gs), name)

\* CodeGenerator::lookup_variable of the running generator.
CodeGenerator_lookup_variable(gs, gl, name) ==
    LET r == Locals_lookup(gs, Len(gs), name)
    IN  IF r.err # "" \/ r.res # None THEN r
        ELSE [gs |-> r.gs, res |-> Env_get_global(gl, name), err |-> ""]

\* generate_variable_load / generate_variable_assign: the opcode for a place.
VariableLoad(place) ==
    Op(CASE place.kind = "Global" -> "GetGlobal"
         [] place.kind = "Local" -> "GetLocal"
         [] place.kind = "Upvalue" -> "GetUpvalue", place.slot)
VariableAssign(place) ==
    Op(CASE place.kind = "Global" -> "AssignGlobal"
         [] place.kind = "Local" -> "AssignLocal"
         [] place.kind = "Upvalue" -> "AssignUpvalue", place.slot)

\* self.chunk.push(op) of the running generator.
Emit(gs, op) == [gs EXCEPT ![Len(gs)].chunk = Chunk_push(@, op)]
RECURSIVE EmitAll(_, _)
EmitAll(gs, ops) ==
    IF ops = <<>> THEN gs ELSE EmitAll(Emit(gs, Head(ops)), Tail(ops))

\* CodeGenerator::push_breakable_block.
CodeGenerator_push_breakable_block(g) ==
    [g EXCEPT !.chunk = Chunk_push(@, Op("Nop", 0)),
              !.breakable_blocks = Append(@, [breaks |-> <<>>, start |-> Chunk_len(g.chunk)])]

RECURSIVE PatchBreaks(_, _)
\* The loop of pop_breakable_block: every break becomes a jump to the end.
PatchBreaks(chunk, breaks) ==
    IF breaks = <<>> THEN chunk
    ELSE PatchBreaks(
            Chunk_patch(chunk, Head(breaks),
                        Opcode_jump_forward(Head(breaks), Chunk_len(chunk))),
            Tail(breaks))

\* Mutant: the block is always marked and closed, breaks or not.
CodeGenerator_pop_breakable_block_Always(g) ==
    LET block == g.breakable_blocks[Len(g.breakable_blocks)]
    IN  [g EXCEPT
            !.breakable_blocks = SubSeq(@, 1, Len(@) - 1),
            !.chunk = Chunk_push(
                PatchBreaks(Chunk_patch(@, block.start, Op("EnterBreakableBlock", 0)),
                            block.breaks),
                Op("ExitBreakableBlock", 1))]

\* CodeGenerator::pop_breakable_block.
CodeGenerator_pop_breakable_block(g) ==
    LET block == g.breakable_blocks[Len(g.breakable_blocks)]
        rest == SubSeq(g.breakable_blocks, 1, Len(g.breakable_blocks) - 1)
    IN  IF block.breaks # <<>>
        THEN [g EXCEPT
                !.breakable_blocks = rest,
                !.chunk = Chunk_push(
                    PatchBreaks(Chunk_patch(@, block.start, Op("EnterBreakableBlock", 0)),
                                block.breaks),
                    Op("ExitBreakableBlock", 1))]
        ELSE [g EXCEPT !.breakable_blocks = rest]

\* ---- the walk over the AST ----

\* The status of CodeGenerator::generate.
Running == [kind |-> "running", error |-> "", name |-> ""]
Finished == [kind |-> "ok", error |-> "", name |-> ""]
\* Err(ast.error(node, kind)).
Failed(kind, name) == [kind |-> "error", error |-> kind, name |-> name]
\* todo!() was reached.
Panicked == [kind |-> "panic", error |-> "todo", name |-> ""]
\* The outcome of a step that may have failed with err.
Outcome(err, name) ==
    IF err = "" THEN Running ELSE IF err = "todo" THEN Panicked ELSE Failed(err, name)

\* A node whose code generation is in progress: its kind, the part of the
\* handler that runs next, and the handler's local variables.
Entry(kind, phase, name, place, n, start, jump) ==
    [kind |-> kind, phase |-> phase, name |-> name, place |-> place,
     n |-> n, start |-> start, jump |-> jump]
ListEntry == Entry("list", "nodes", "", None, 0, 0, 0)

Top == open[Len(open)]
Cur == Len(gens)
Pop(seq) == SubSeq(seq, 1, Len(seq) - 1)
\* Where the handler below stands once a node returned Ok: generate_node_list
\* loops, every other handler resumes after its generate_node call.
ModeAfter(o) == IF o[Len(o)].kind = "list" THEN "list" ELSE "ret"

\* generate_node is about to be called for a next node.
AtNode == status.kind = "running" /\ mode \in {"node", "list"} /\ nodes < MaxNodes
\* As AtNode for a leaf node; a mandatory operand can always be a leaf, so that
\* every tree that was begun can be completed.
AtLeaf == status.kind = "running" /\ (mode = "node" \/ (mode = "list" /\ nodes < MaxNodes))
\* A generate_node call returned Ok to the handler of kind k in phase ph.
Returned(k, ph) ==
    /\ status.kind = "running"
    /\ mode = "ret"
    /\ Top.kind = k
    /\ Top.phase = ph

\* Mutant: the value of a node that is not the last stays on the stack.
StartGens_NoDiscard == gens

\* generate_node_list: a node that is not the last is followed by Discard.
StartGens ==
    IF mode = "list" /\ Top.n > 0 THEN Emit(gens, Op("Discard", 0)) ELSE gens
StartOpen ==
    IF mode = "list" THEN [open EXCEPT ![Len(open)].n = @ + 1] ELSE open

\* What the last step did.
LastStep(op, name, place, created, at) ==
    [op |-> op, name |-> name, place |-> place, gen |-> Cur,
     created |-> created, at |-> at]

\* The history of a local created in scope `depth` at `slot`.
Decl(name, slot, depth) == [name |-> name, slot |-> slot, depth |-> depth]
\* The history after generator d created a local (nothing when the variable
\* became a global).
DeclAdd(dc, d, g, name, place) ==
    IF place.kind = "Local"
    THEN [dc EXCEPT ![d] = Append(@, Decl(name, g.local_count, Len(g.scopes)))]
    ELSE dc
\* The history after generator d popped its scope `depth`.
DeclPop(dc, d, depth) ==
    [dc EXCEPT ![d] = SelectSeq(@, LAMBDA e : e.depth # depth)]

\* The counts of a Locals when a scope is pushed on it.
Mark(g) == [local_count |-> g.local_count,
            allocated_local_count |-> g.allocated_local_count]
MarkPush(mk, d, g) == [mk EXCEPT ![d] = Append(@, Mark(g))]

\* The history of the extents: a node or node list begins at offset `at`, the
\* innermost one that began ends at `at`, a leaf covers begin..end.
NoSpans == [open |-> <<>>, done |-> {}]
SpanBegin(sp, d, at) == [sp EXCEPT ![d].open = Append(@, at)]
SpanEnd(sp, d, at) ==
    [sp EXCEPT ![d].open = Pop(@),
               ![d].done = @ \cup {<<sp[d].open[Len(sp[d].open)], at>>}]
SpanLeaf(sp, d, begin, end) == [sp EXCEPT ![d].done = @ \cup {<<begin, end>>}]
\* The offset at which the next node's code begins, and the end of the code
\* of generator d after the step.
NodeBegin == Chunk_len(StartGens[Cur].chunk)
CodeEnd(d) == Chunk_len(gens'[d].chunk)

\* The history after a lookup of generator d returned `place`.
CaptureAdd(cp, d, name, place) ==
    IF place.kind = "Upvalue" THEN [cp EXCEPT ![d] = @ \cup {<<name, place.slot>>}] ELSE cp

CgInit ==
    /\ globals = <<>>
    /\ functions = <<>>
    /\ gens = <<CodeGenerator_new>>
    /\ open = <<Entry("main", "nodes", "", None, 0, 0, 0), ListEntry>>
    /\ mode = "list"
    /\ status = Running
    /\ nodes = 0
    /\ cgLast = [op |-> "init", name |-> "", place |-> None, gen |-> 1,
                 created |-> FALSE, at |-> 0]
    /\ decls = << <<>> >>
    /\ captures = << {} >>
    /\ marks = << <<>> >>
    /\ spans = << SpanBegin(<<NoSpans>>, 1, 0)[1] >>

\* generate_nil / generate_boolean / generate_number / generate_string.
GenLiteral(k) ==
    /\ CgFrame
    /\ UNCHANGED marks
    /\ AtLeaf
    /\ LET ops == CASE k = "Nil" -> <<Op("PushNil", 0)>>
                    [] k = "True" -> <<Op("PushTrue", 0)>>
                    [] k = "False" -> <<Op("PushFalse", 0)>>
                    [] k = "Number" -> <<Op("PushNumber", 0), Op("f64", 0)>>
                    [] k = "String" -> <<Op("PushString", 0), Op("str", 0)>>
       IN  gens' = EmitAll(StartGens, ops)
    /\ open' = StartOpen
    /\ mode' = ModeAfter(open')
    /\ nodes' = nodes + 1
    /\ cgLast' = LastStep("literal", k, None, FALSE, 0)
    /\ UNCHANGED <<globals, functions, status, decls, captures>>
    /\ spans' = SpanLeaf(spans, Cur, NodeBegin, CodeEnd(Cur))

\* generate_variable.
GenVariable(name) ==
    /\ CgFrame
    /\ UNCHANGED marks
    /\ AtLeaf
    /\ LET r == CodeGenerator_lookup_variable(StartGens, globals, name)
           missing == r.err = "" /\ r.res = None
       IN  /\ status' = IF missing THEN Failed("VariableDoesNotExist", name)
                        ELSE Outcome(r.err, name)
           /\ gens' = IF r.err = "" /\ r.res # None
                      THEN Emit(r.gs, VariableLoad(r.res)) ELSE r.gs
           /\ cgLast' = LastStep("read", name, r.res, FALSE, 0)
           /\ captures' = CaptureAdd(captures, Cur, name, r.res)
    /\ open' = StartOpen
    /\ mode' = ModeAfter(open')
    /\ nodes' = nodes + 1
    /\ UNCHANGED <<globals, functions, decls>>
    /\ spans' = SpanLeaf(spans, Cur, NodeBegin, CodeEnd(Cur))

\* generate_assignment, up to generate_node(value).
BeginAssign(target) ==
    /\ CgFrame
    /\ UNCHANGED marks
    /\ AtNode
    /\ gens' = StartGens
    /\ open' = Append(StartOpen, Entry("assign", "value", target, None, 0, 0, 0))
    /\ mode' = "node"
    /\ nodes' = nodes + 1
    /\ cgLast' = LastStep("assign_begin", target, None, FALSE, 0)
    /\ UNCHANGED <<globals, functions, status, decls, captures>>
    /\ spans' = SpanBegin(spans, Cur, NodeBegin)

\* generate_assignment, after generate_node(value).
EndAssign ==
    /\ CgFrame
    /\ UNCHANGED marks
    /\ Returned("assign", "value")
    /\ LET name == Top.name
           r == CodeGenerator_lookup_variable(gens, globals, name)
           found == r.err = "" /\ r.res # None
           c == CodeGenerator_create_variable(r.gs[Cur], globals, name, "Allocate")
           variable == IF found THEN r.res ELSE c.place
           err == IF name = NonIdentifier THEN "InvalidAssignment"
                  ELSE IF r.err # "" THEN r.err
                  ELSE IF found THEN "" ELSE c.err
           created == err = "" /\ ~found
           gs == IF created THEN [r.gs EXCEPT ![Cur] = c.gen] ELSE r.gs
       IN  /\ status' = Outcome(err, name)
           /\ gens' = IF name = NonIdentifier THEN gens
                      ELSE IF err = "" THEN Emit(gs, VariableAssign(variable)) ELSE gs
           /\ globals' = IF created THEN c.globals ELSE globals
           /\ decls' = IF created THEN DeclAdd(decls, Cur, gens[Cur], name, variable)
                       ELSE decls
           /\ cgLast' = LastStep("assign", name, IF err = "" THEN variable ELSE None,
                                 created, 0)
           /\ captures' = CaptureAdd(captures, Cur, name, IF err = "" THEN variable ELSE None)
    /\ open' = Pop(open)
    /\ mode' = ModeAfter(open')
    /\ UNCHANGED <<functions, nodes>>
    /\ spans' = SpanEnd(spans, Cur, CodeEnd(Cur))

\* generate_do, up to generate_node_list.
BeginDo ==
    /\ CgFrame
    /\ marks' = MarkPush(marks, Cur, StartGens[Cur])
    /\ AtNode
    /\ gens' = [StartGens EXCEPT ![Cur] = Locals_push_scope(@)]
    /\ open' = StartOpen \o <<Entry("do", "body", "", None, 0, 0, 0), ListEntry>>
    /\ mode' = "list"
    /\ nodes' = nodes + 1
    /\ cgLast' = LastStep("do_begin", "", None, FALSE, 0)
    /\ UNCHANGED <<globals, functions, status, decls, captures>>
    /\ spans' = SpanBegin(SpanBegin(spans, Cur, NodeBegin), Cur, NodeBegin)

\* generate_node_list returns: an empty list is a nil literal.
EndList ==
    /\ CgFrame
    /\ UNCHANGED marks
    /\ status.kind = "running"
    /\ mode = "list"
    /\ gens' = IF Top.n = 0 THEN Emit(gens, Op("PushNil", 0)) ELSE gens
    /\ open' = Pop(open)
    /\ mode' = "ret"
    /\ cgLast' = LastStep("list_end", "", None, FALSE, 0)
    /\ UNCHANGED <<globals, functions, status, nodes, decls, captures>>
    /\ spans' = SpanEnd(spans, Cur, CodeEnd(Cur))

\* generate_do, after generate_node_list.
EndDo ==
    /\ CgFrame
    /\ Returned("do", "body")
    /\ gens' = [gens EXCEPT ![Cur] = Locals_pop_scope(@)]
    /\ decls' = DeclPop(decls, Cur, Len(gens[Cur].scopes))
    /\ marks' = [marks EXCEPT ![Cur] = Pop(@)]
    /\ UNCHANGED captures
    /\ open' = Pop(open)
    /\ mode' = ModeAfter(open')
    /\ cgLast' = LastStep("do_end", "", None, FALSE, 0)
    /\ UNCHANGED <<globals, functions, status, nodes>>
    /\ spans' = SpanEnd(spans, Cur, CodeEnd(Cur))

\* generate_while, up to generate_node(condition).
BeginWhile ==
    /\ CgFrame
    /\ marks' = MarkPush(marks, Cur, StartGens[Cur])
    /\ AtNode
    /\ LET g == CodeGenerator_push_breakable_block(Locals_push_scope(StartGens[Cur]))
       IN  /\ gens' = [StartGens EXCEPT ![Cur] = g]
           /\ open' = Append(StartOpen,
                             Entry("while", "condition", "", None, 0, Chunk_len(g.chunk), 0))
    /\ mode' = "node"
    /\ nodes' = nodes + 1
    /\ cgLast' = LastStep("while_begin", "", None, FALSE, 0)
    /\ UNCHANGED <<globals, functions, status, decls, captures>>
    /\ spans' = SpanBegin(spans, Cur, NodeBegin)

\* generate_while, between the condition and the body.
WhileBody ==
    /\ CgFrame
    /\ UNCHANGED marks
    /\ Returned("while", "condition")
    /\ LET jump_to_end == Chunk_len(gens[Cur].chunk)
       IN  /\ gens' = EmitAll(gens, <<Op("Nop", 0), Op("Discard", 0)>>)
           /\ open' = Append([open EXCEPT ![Len(open)].phase = "body",
                                          ![Len(open)].jump = jump_to_end],
                             ListEntry)
    /\ mode' = "list"
    /\ cgLast' = LastStep("while_body", "", None, FALSE, 0)
    /\ UNCHANGED <<globals, functions, status, nodes, decls, captures>>
    /\ spans' = SpanBegin(spans, Cur, CodeEnd(Cur))

\* generate_while, after the body.
EndWhile ==
    /\ CgFrame
    /\ Returned("while", "body")
    /\ LET g == gens[Cur]
           c1 == Chunk_push(g.chunk, Op("Discard", 0))
           back == Opcode_jump_backward(Chunk_len(c1), Top.start)
           c2 == Chunk_push(c1, back)
           fwd == Opcode_jump_forward_if_falsy(Top.jump, Chunk_len(c2))
           c3 == Chunk_push(Chunk_push(Chunk_patch(c2, Top.jump, fwd), Op("Discard", 0)),
                            Op("PushNil", 0))
           err == IF Opr24_ok(back.arg) /\ Opr24_ok(fwd.arg) THEN "" ELSE "LoopTooLarge"
           done == Locals_pop_scope(
                      CodeGenerator_pop_breakable_block([g EXCEPT !.chunk = c3]))
       IN  /\ status' = Outcome(err, "")
           /\ gens' = IF err = "" THEN [gens EXCEPT ![Cur] = done] ELSE gens
    /\ decls' = DeclPop(decls, Cur, Len(gens[Cur].scopes))
    /\ marks' = [marks EXCEPT ![Cur] = Pop(@)]
    /\ UNCHANGED captures
    /\ open' = Pop(open)
    /\ mode' = ModeAfter(open')
    /\ cgLast' = LastStep("while_end", "", None, FALSE, 0)
    /\ UNCHANGED <<globals, functions, nodes>>
    /\ spans' = SpanEnd(spans, Cur, CodeEnd(Cur))

\* generate_break, up to generate_node(right).
BeginBreak ==
    /\ CgFrame
    /\ UNCHANGED marks
    /\ AtNode
    /\ gens' = StartGens
    /\ open' = Append(StartOpen, Entry("break", "value", "", None, 0, 0, 0))
    /\ mode' = "node"
    /\ nodes' = nodes + 1
    /\ cgLast' = LastStep("break_begin", "", None, FALSE, 0)
    /\ UNCHANGED <<globals, functions, status, decls, captures>>
    /\ spans' = SpanBegin(spans, Cur, NodeBegin)

\* Mutant: a break is recorded in the outermost breakable block.
RecordBreak_Outermost(g, jump) ==
    [g EXCEPT !.breakable_blocks[1].breaks = Append(@, jump)]

\* generate_break: block.breaks.push(jump) on breakable_blocks.last_mut().
RecordBreak(g, jump) ==
    [g EXCEPT !.breakable_blocks[Len(g.breakable_blocks)].breaks = Append(@, jump)]

\* Mutant: a break is accepted without any breakable block.
BreakAccepted_Always(g) == TRUE

\* generate_break: breakable_blocks.last_mut() is Some.
BreakAccepted(g) == g.breakable_blocks # <<>>

\* generate_break, after generate_node(right).
EndBreak ==
    /\ CgFrame
    /\ UNCHANGED marks
    /\ Returned("break", "value")
    /\ LET jump == Chunk_len(gens[Cur].chunk)
           gs == Emit(gens, Op("Nop", 0))
       IN  /\ gens' = IF BreakAccepted(gens[Cur])
                      THEN [gs EXCEPT ![Cur] = RecordBreak(@, jump)] ELSE gs
           /\ status' = IF BreakAccepted(gens[Cur]) THEN Running
                        ELSE Failed("BreakOutsideOfLoop", "")
           /\ cgLast' = LastStep("break", "", None, FALSE, jump)
    /\ open' = Pop(open)
    /\ mode' = ModeAfter(open')
    /\ UNCHANGED <<globals, functions, nodes, decls, captures>>
    /\ spans' = SpanEnd(spans, Cur, CodeEnd(Cur))

\* generate_node of a Return node: todo!("return is NYI") panics before the
\* node's expression is visited and before anything is emitted for it.
GenReturn ==
    /\ CgFrame
    /\ UNCHANGED marks
    /\ AtLeaf
    /\ gens' = StartGens
    /\ open' = StartOpen
    /\ nodes' = nodes + 1
    /\ status' = Panicked
    /\ cgLast' = LastStep("return", "", None, FALSE, 0)
    /\ UNCHANGED <<globals, functions, mode, decls, captures>>
    /\ UNCHANGED spans

RECURSIVE CreateParameters(_, _, _)
\* generate_function: create_variable(parameter_name, Inherit) per parameter.
CreateParameters(g, gl, params) ==
    IF params = <<>> THEN [gen |-> g, err |-> ""]
    ELSE LET r == CodeGenerator_create_variable(g, gl, Head(params), "Inherit")
         IN  IF r.err # "" THEN [gen |-> r.gen, err |-> r.err]
             ELSE CreateParameters(r.gen, gl, Tail(params))

\* The history of the parameters: the i-th takes slot i - 1 of scope 1.
ParameterDecls(params) == [i \in 1..Len(params) |-> Decl(params[i], i - 1, 1)]

\* generate_function, up to generate_node_list(body).
BeginFunc(name, params) ==
    /\ CgFrame
    /\ AtNode
    /\ LET parent == StartGens[Cur]
           v == IF name # NoName
                THEN CodeGenerator_create_variable(parent, globals, name, "Allocate")
                ELSE [gen |-> parent, globals |-> globals, place |-> None, err |-> ""]
           p == CreateParameters(Locals_push_scope(CodeGenerator_new), v.globals, params)
           err == IF v.err # "" THEN v.err ELSE p.err
       IN  /\ status' = Outcome(err, name)
           /\ globals' = v.globals
           /\ gens' = IF err = "" THEN Append([StartGens EXCEPT ![Cur] = v.gen], p.gen)
                      ELSE StartGens
           /\ decls' = IF err = ""
                       THEN Append(DeclAdd(decls, Cur, parent, name, v.place),
                                   ParameterDecls(params))
                       ELSE decls
           /\ captures' = IF err = "" THEN Append(captures, {}) ELSE captures
           /\ marks' = IF err = "" THEN Append(marks, <<Mark(CodeGenerator_new)>>)
                       ELSE marks
           /\ open' = StartOpen \o
                        <<Entry("func", "body", name, v.place, Len(params), 0, 0), ListEntry>>
           /\ cgLast' = LastStep("func_begin", name, v.place, v.err = "" /\ name # NoName, 0)
    /\ mode' = "list"
    /\ nodes' = nodes + 1
    /\ UNCHANGED functions
    /\ spans' = IF status'.kind = "running"
                THEN Append(SpanBegin(spans, Cur, NodeBegin), SpanBegin(<<NoSpans>>, 1, 0)[1])
                ELSE spans

\* generate_function, after generate_node_list(body).
EndFunc ==
    /\ CgFrame
    /\ Returned("func", "body")
    /\ LET g == Locals_pop_scope(gens[Cur])
           chunk == Chunk_push(g.chunk, Op("Return", 0))
           function == [name |-> Top.name, parameter_count |-> Top.n,
                        chunk |-> chunk, captured_locals |-> g.captured_locals]
           f == Env_create_function(functions, function)
           err == IF Top.n > U16Max THEN "TooManyParameters" ELSE f.err
           parent == Emit(Pop(gens), Op("CreateClosure", f.id))
       IN  /\ status' = Outcome(err, Top.name)
           /\ functions' = IF err = "" THEN f.functions ELSE functions
           /\ gens' = IF err # "" THEN Pop(gens)
                      ELSE IF Top.name # NoName
                      THEN EmitAll(parent, <<VariableAssign(Top.place), Op("Discard", 0),
                                             Op("PushNil", 0)>>)
                      ELSE parent
    /\ decls' = Pop(decls)
    /\ captures' = Pop(captures)
    /\ marks' = Pop(marks)
    /\ open' = Pop(open)
    /\ mode' = ModeAfter(open')
    /\ cgLast' = LastStep("func_end", Top.name, Top.place, FALSE, 0)
    /\ UNCHANGED <<globals, nodes>>
    /\ spans' = SpanEnd(Pop(spans), Cur - 1, CodeEnd(Cur - 1))

\* CodeGenerator::generate, after generate_node(root_node).
EndMain ==
    /\ CgFrame
    /\ UNCHANGED marks
    /\ Returned("main", "nodes")
    /\ gens' = Emit(gens, Op("Halt", 0))
    /\ status' = Finished
    /\ cgLast' = LastStep("halt", "", None, FALSE, 0)
    /\ UNCHANGED <<globals, functions, open, mode, nodes, decls, captures>>
    /\ UNCHANGED spans

CgNext ==
    \/ \E k \in LiteralKinds : GenLiteral(k)
    \/ \E name \in Names : GenVariable(name)
    \/ \E target \in Names \cup {NonIdentifier} : BeginAssign(target)
    \/ EndAssign
    \/ BeginDo
    \/ EndList
    \/ EndDo
    \/ BeginWhile
    \/ WhileBody
    \/ EndWhile
    \/ BeginBreak
    \/ EndBreak
    \/ GenReturn
    \/ \E head \in FuncHeads : BeginFunc(head[1], head[2])
    \/ EndFunc
    \/ EndMain

(***************************************************************************)
(*                        Engine  (hl/engine.rs)                           *)
(***************************************************************************)

\* The largest u8.
U8Max == 255
\* The method names, arities and argument counts of the modelled calls.
MethodNames == {"f"}
Arities == {0, 1, U8Max}
ArgCounts == {0, 1, U8Max - 1, U8Max, U8Max + 1}

\* bytecode::MethodSignature { name, arity, trait_id: None }.
Signature(name, arity) == [name |-> name, arity |-> arity]

\* Environment::get_or_create_method_index: identical signatures share one
\* index, a new signature takes the next one.
Env_get_or_create_method_index(ms, sig) ==
    LET found == {i \in 1..Len(ms) : ms[i] = sig}
    IN  IF found # {}
        THEN [methods |-> ms, index |-> (CHOOSE i \in found : TRUE) - 1, err |-> ""]
        ELSE IF Len(ms) <= U16Max
        THEN [methods |-> Append(ms, sig), index |-> Len(ms), err |-> ""]
        ELSE [methods |-> ms, index |-> 0, err |-> "TooManyMethods"]

\* Environment::get_method_signature.
Env_get_method_signature(ms, index) == ms[index + 1]

\* Mutant: the receiver is not counted in the arity of the signature.
MethodSignature_to_method_id_NoReceiver(ms, name, a) ==
    Env_get_or_create_method_index(ms, Signature(name, a))

\* impl MethodSignature for (&str, u8): to_method_id.
MethodSignature_to_method_id(ms, name, a) ==
    Env_get_or_create_method_index(ms, Signature(name, a + 1))

\* What an Engine call returned: an Error before anything ran, or the
\* result of running the fiber (executed).
EngineError(kind, expected, got_) ==
    [kind |-> kind, expected |-> expected, got |-> got_, method |-> 0, argc |-> 0,
     executed |-> FALSE]
\* The (call) chunk CallMethod(pack(method_id, argument_count)), Halt was run.
Dispatched(method, argc) ==
    [kind |-> "CallMethod", expected |-> 0, got |-> 0, method |-> method, argc |-> argc,
     executed |-> TRUE]

\* Engine::call_method with signature (name, a) and n arguments.
Engine_call_method(ms, name, a, n) ==
    LET m == MethodSignature_to_method_id(ms, name, a)
        signature == Env_get_method_signature(m.methods, m.index)
        stack_len == 1 + n
        argument_count == stack_len
    IN  IF m.err # ""
        THEN [methods |-> m.methods, result |-> EngineError("TooManyMethods", 0, 0)]
        ELSE IF stack_len > U8Max
        THEN [methods |-> m.methods, result |-> EngineError("TooManyArguments", 0, 0)]
        ELSE IF argument_count # signature.arity
        THEN [methods |-> m.methods,
              result |-> EngineError("ArgumentCount", signature.arity - 1, argument_count - 1)]
        ELSE [methods |-> m.methods, result |-> Dispatched(m.index, argument_count)]

\* impl GlobalName for &str: to_global_id.
GlobalName_to_global_id(gl, name) ==
    IF Env_get_global(gl, name) # None
    THEN [globals |-> gl, slot |-> Env_get_global(gl, name).slot, err |-> ""]
    ELSE LET r == Env_create_global(gl, name)
         IN  [globals |-> r.globals, slot |-> r.slot,
              err |-> IF r.err = "" THEN "" ELSE "TooManyGlobals"]

\* impl OptionalGlobalName for &str: try_to_global_id.
OptionalGlobalName_try_to_global_id(gl, name) == Env_get_global(gl, name)

\* vm::Globals::set and get: a slot that was not set reads as nil.
Globals_set(vs, id, v) == [i \in DOMAIN vs \cup {id} |-> IF i = id THEN v ELSE vs[i]]
Globals_get(vs, id) == IF id \in DOMAIN vs THEN vs[id] ELSE ValueDefault

\* Mutant: set stores only into a global that exists already.
Engine_set_ExistingOnly(gl, vs, name, v) ==
    IF Env_get_global(gl, name) = None
    THEN [globals |-> gl, values |-> vs, err |-> ""]
    ELSE [globals |-> gl, values |-> Globals_set(vs, Env_get_global(gl, name).slot, v),
          err |-> ""]

\* Engine::set.
Engine_set(gl, vs, name, v) ==
    LET id == GlobalName_to_global_id(gl, name)
    IN  IF id.err # "" THEN [globals |-> gl, values |-> vs, err |-> id.err]
        ELSE [globals |-> id.globals, values |-> Globals_set(vs, id.slot, v), err |-> ""]

\* Engine::get.
Engine_get(gl, vs, name) ==
    LET id == OptionalGlobalName_try_to_global_id(gl, name)
    IN  IF id # None THEN Globals_get(vs, id.slot) ELSE ValueDefault

EngInit ==
    /\ eGlobals = <<>>
    /\ eValues = <<>>
    /\ eMethods = <<>>
    /\ eLast = [op |-> "init", name |-> "", a |-> 0, n |-> 0, value |-> ValueDefault,
                id |-> 0, result |-> EngineError("", 0, 0)]
    /\ eSet = [name \in Names |-> Uninit]

EngLast(op, name, a, n, value, id, result) ==
    [op |-> op, name |-> name, a |-> a, n |-> n, value |-> value, id |-> id,
     result |-> result]

EngCallMethod(name, a, n) ==
    /\ EngFrame
    /\ LET r == Engine_call_method(eMethods, name, a, n)
       IN  /\ eMethods' = r.methods
           /\ eLast' = EngLast("call_method", name, a, n, ValueDefault, 0, r.result)
    /\ UNCHANGED <<eGlobals, eValues, eSet>>

EngMethodId(name, a) ==
    /\ EngFrame
    /\ LET r == MethodSignature_to_method_id(eMethods, name, a)
       IN  /\ eMethods' = r.methods
           /\ eLast' = EngLast("method_id", name, a, 0, ValueDefault, r.index,
                               EngineError(r.err, 0, 0))
    /\ UNCHANGED <<eGlobals, eValues, eSet>>

EngGlobalId(name) ==
    /\ EngFrame
    /\ LET r == GlobalName_to_global_id(eGlobals, name)
       IN  /\ eGlobals' = r.globals
           /\ eLast' = EngLast("global_id", name, 0, 0, ValueDefault, r.slot,
                               EngineError(r.err, 0, 0))
    /\ UNCHANGED <<eValues, eMethods, eSet>>

EngSet(name, v) ==
    /\ EngFrame
    /\ LET r == Engine_set(eGlobals, eValues, name, v)
       IN  /\ eGlobals' = r.globals
           /\ eValues' = r.values
           /\ eLast' = EngLast("set", name, 0, 0, v, 0, EngineError(r.err, 0, 0))
    /\ eSet' = [eSet EXCEPT ![name] = v]
    /\ UNCHANGED eMethods

EngGet(name) ==
    /\ EngFrame
    /\ eLast' = EngLast("get", name, 0, 0, Engine_get(eGlobals, eValues, name), 0,
                        EngineError("", 0, 0))
    /\ UNCHANGED <<eGlobals, eValues, eMethods, eSet>>

EngNext ==
    \/ \E name \in MethodNames, a \in Arities, n \in ArgCounts : EngCallMethod(name, a, n)
    \/ \E name \in MethodNames, a \in Arities : EngMethodId(name, a)
    \/ \E name \in Names : EngGlobalId(name)
    \/ \E name \in Names, v \in UpValueSet : EngSet(name, v)
    \/ \E name \in Names : EngGet(name)

(***************************************************************************)
(*                   TypeBuilder  (mica-hl/src/types.rs)                   *)
(***************************************************************************)

\* Bounds: the functions one builder registers, and the functions the
\* Environment holds.
MaxRegistered == 2
MaxFunctions == 3

\* The inputs of the registrations: method names, parameter counts and the
\* foreign functions.
TypeMethodNames == {"m", "n"}
ParameterCounts == {1, 2}
ForeignFunctions == {"fa", "fb"}
TypeName == "T"

\* struct DispatchTable: new_for_type, new_for_instance, set_method,
\* get_method (NoMethod for an unset slot).
NoMethod == [function_id |-> -1]
NoTable == [pretty_name |-> <<>>, kind |-> "None", methods |-> <<>>]
Closure(function_id) == [function_id |-> function_id]
DispatchTable_new_for_type(type_name) ==
    [pretty_name |-> <<"type", type_name>>, kind |-> "Type", methods |-> <<>>,
     instance |-> NoTable]
DispatchTable_new_for_instance(type_name) ==
    [pretty_name |-> <<type_name>>, kind |-> "Instance", methods |-> <<>>]
DispatchTable_set_method(dtable, index, closure) ==
    [dtable EXCEPT !.methods =
        [i \in 1..(IF index + 1 > Len(@) THEN index + 1 ELSE Len(@)) |->
            IF i = index + 1 THEN closure
            ELSE IF i <= Len(@) THEN @[i] ELSE NoMethod]]
DispatchTable_get_method(dtable, index) ==
    IF index + 1 \in DOMAIN dtable.methods THEN dtable.methods[index + 1] ELSE NoMethod

\* One entry of DispatchTableDescriptor::methods.
Method(name, arity, f) == [signature |-> Signature(name, arity), f |-> f]

\* DispatchTableDescriptor::build_dtable: for each method in order, create
\* the function, intern the signature, set the closure at the method index.
RECURSIVE DispatchTableDescriptor_build_dtable(_, _, _, _)
DispatchTableDescriptor_build_dtable(methods, dtable, ms, fns) ==
    IF methods = <<>>
    THEN [dtable |-> dtable, methods |-> ms, functions |-> fns, err |-> ""]
    ELSE LET signature == Head(methods).signature
             cf == Env_create_function(fns,
                       [name |-> dtable.pretty_name \o <<signature.name>>,
                        parameter_count |-> signature.arity,
                        kind |-> "Foreign", f |-> Head(methods).f])
             mi == Env_get_or_create_method_index(ms, signature)
         IN  IF cf.err # ""
             THEN [dtable |-> dtable, methods |-> ms, functions |-> fns,
                   err |-> "TooManyFunctions"]
             ELSE IF mi.err # ""
             THEN [dtable |-> dtable, methods |-> ms, functions |-> cf.functions,
                   err |-> "TooManyMethods"]
             ELSE DispatchTableDescriptor_build_dtable(
                      Tail(methods),
                      DispatchTable_set_method(dtable, mi.index, Closure(cf.id)),
                      mi.methods, cf.functions)

\* TypeBuilder::new.
TypeBuilder_new(type_name) ==
    [type_name |-> type_name, type_dtable |-> <<>>, instance_dtable |-> <<>>]

\* TypeBuilder::add_raw_function and add_raw_static.
TypeBuilder_add_raw_function(tb, name, parameter_count, f) ==
    [tb EXCEPT !.instance_dtable = Append(@, Method(name, parameter_count, f))]
TypeBuilder_add_raw_static(tb, name, parameter_count, f) ==
    [tb EXCEPT !.type_dtable = Append(@, Method(name, parameter_count, f))]

\* TypeBuilder::add_static: the static receiver is added to the bare
\* function's parameter count.
TypeBuilder_add_static(tb, name, parameter_count, f) ==
    TypeBuilder_add_raw_static(tb, name, parameter_count + 1, f)

\* What build returns, with the Environment it leaves.
BuildResult(err, type_dtable, instance_dtable, ms, fns) ==
    [err |-> err, type_dtable |-> type_dtable, instance_dtable |-> instance_dtable,
     methods |-> ms, functions |-> fns]

\* Mutant: the static functions are built into the instance table and the
\* instance functions into the type table.
TypeBuilder_build_Swapped(tb, ms, fns) ==
    LET t == DispatchTableDescriptor_build_dtable(
                 tb.instance_dtable, DispatchTable_new_for_type(tb.type_name), ms, fns)
        i == DispatchTableDescriptor_build_dtable(
                 tb.type_dtable, DispatchTable_new_for_instance(tb.type_name),
                 t.methods, t.functions)
    IN  BuildResult("", [t.dtable EXCEPT !.instance = i.dtable], i.dtable,
                    i.methods, i.functions)

\* TypeBuilder::build.
TypeBuilder_build(tb, ms, fns) ==
    LET t == DispatchTableDescriptor_build_dtable(
                 tb.type_dtable, DispatchTable_new_for_type(tb.type_name), ms, fns)
        i == DispatchTableDescriptor_build_dtable(
                 tb.instance_dtable, DispatchTable_new_for_instance(tb.type_name),
                 t.methods, t.functions)
    IN  IF t.err # "" THEN BuildResult(t.err, NoTable, NoTable, t.methods, t.functions)
        ELSE IF i.err # "" THEN BuildResult(i.err, NoTable, NoTable, i.methods, i.functions)
        ELSE BuildResult("", [t.dtable EXCEPT !.instance = i.dtable], i.dtable,
                         i.methods, i.functions)

Registered(tb) == Len(tb.type_dtable) + Len(tb.instance_dtable)

TyInit ==
    /\ builder = TypeBuilder_new(TypeName)
    /\ tMethods = <<>>
    /\ tFunctions = <<>>
    /\ tLast = [op |-> "init", builder |-> TypeBuilder_new(TypeName),
                built |-> BuildResult("", NoTable, NoTable, <<>>, <<>>)]

CanRegister ==
    /\ Registered(builder) < MaxRegistered
    /\ Registered(builder) + Len(tFunctions) < MaxFunctions

TyAddRawFunction(name, parameter_count, f) ==
    /\ TyFrame
    /\ CanRegister
    /\ builder' = TypeBuilder_add_raw_function(builder, name, parameter_count, f)
    /\ UNCHANGED <<tMethods, tFunctions, tLast>>

TyAddStatic(name, parameter_count, f) ==
    /\ TyFrame
    /\ CanRegister
    /\ builder' = TypeBuilder_add_static(builder, name, parameter_count - 1, f)
    /\ UNCHANGED <<tMethods, tFunctions, tLast>>

\* Engine::add_type: build the type in the Environment; the builder is
\* consumed and a new one begins.
TyBuild ==
    /\ TyFrame
    /\ LET r == TypeBuilder_build(builder, tMethods, tFunctions)
       IN  /\ tMethods' = r.methods
           /\ tFunctions' = r.functions
           /\ tLast' = [op |-> "build", builder |-> builder, built |-> r]
    /\ builder' = TypeBuilder_new(TypeName)

TyNext ==
    \/ \E name \in TypeMethodNames, pc \in ParameterCounts, f \in ForeignFunctions :
           TyAddRawFunction(name, pc, f)
    \/ \E name \in TypeMethodNames, pc \in ParameterCounts, f \in ForeignFunctions :
           TyAddStatic(name, pc, f)
    \/ TyBuild

(***************************************************************************)
(*                            Specifications                               *)
(***************************************************************************)

(***************************************************************************)
(*        Code generator: operators, and / or, if, call  (codegen.rs)      *)
(***************************************************************************)

\* The operators, names and function heads of the compiled expressions.
UnaryKinds == {"Not"}
BinaryKinds == {"Add", "Greater"}
LogicKinds == {"and", "or"}
ExprNames == {"x"}
ExprLiteralKinds == {"Nil"}
ExprFuncHeads == {<<NoName, <<>>>>, <<"x", <<>>>>}

\* Opcode::jump_forward_if_truthy.
Opcode_jump_forward_if_truthy(from, to) == Op("JumpForwardIfTruthy", to - from)

\* generate_binary: the opcodes pushed after both operands.
BinaryOpcodes(kind) ==
    CASE kind = "NotEqual" -> <<Op("Equal", 0), Op("Not", 0)>>
      [] kind = "Greater" -> <<Op("Swap", 0), Op("Less", 0)>>
      [] kind = "GreaterEqual" -> <<Op("Swap", 0), Op("LessEqual", 0)>>
      [] OTHER -> <<Op(kind, 0)>>

\* Mutant: the jump lands on the last instruction of the right operand.
CodeGenerator_jump_past_right_IntoRight(chunk, kind, jump_past_right) ==
    IF kind = "and"
    THEN Opcode_jump_forward_if_falsy(jump_past_right, Chunk_len(chunk) - 1)
    ELSE Opcode_jump_forward_if_truthy(jump_past_right, Chunk_len(chunk) - 1)

\* generate_and / generate_or: the opcode patched over jump_past_right once
\* the right operand has been generated.
CodeGenerator_jump_past_right(chunk, kind, jump_past_right) ==
    IF kind = "and"
    THEN Opcode_jump_forward_if_falsy(jump_past_right, Chunk_len(chunk))
    ELSE Opcode_jump_forward_if_truthy(jump_past_right, Chunk_len(chunk))

\* The handler of an if: as Entry, with the local jumps_to_end.
IfEntry(phase, jump, jumps_to_end) ==
    [kind |-> "if", phase |-> phase, name |-> "", place |-> None,
     n |-> 0, start |-> 0, jump |-> jump, jumps_to_end |-> jumps_to_end]

\* generate_if, an IfBranch after its node list: pop_scope, the jump to the
\* end, and the patch of the branch's conditional jump.
IfBranchEnd(g, jump) ==
    LET popped == Locals_pop_scope(g)
        jump_to_end == Chunk_len(popped.chunk)
        c1 == Chunk_push(popped.chunk, Op("Nop", 0))
        patch == Opcode_jump_forward_if_falsy(jump, Chunk_len(c1))
    IN  [gen |-> [popped EXCEPT !.chunk = Chunk_patch(c1, jump, patch)],
         jump_to_end |-> jump_to_end,
         err |-> IF Opr24_ok(patch.arg) THEN "" ELSE "IfBranchTooLarge"]

RECURSIVE PatchJumpsToEnd(_, _)
\* generate_if: every jump to the end becomes an unconditional jump forward.
PatchJumpsToEnd(chunk, jumps_to_end) ==
    IF jumps_to_end = <<>> THEN chunk
    ELSE PatchJumpsToEnd(
            Chunk_patch(chunk, Head(jumps_to_end),
                        Opcode_jump_forward(Head(jumps_to_end), Chunk_len(chunk))),
            Tail(jumps_to_end))

\* generate_unary / generate_binary / generate_and / generate_or /
\* generate_call, up to the first generate_node.
BeginOperator(kind, name) ==
    /\ CgFrame
    /\ UNCHANGED marks
    /\ AtNode
    /\ gens' = StartGens
    /\ open' = Append(StartOpen, Entry(kind, "left", name, None, 0, 0, 0))
    /\ mode' = "node"
    /\ nodes' = nodes + 1
    /\ cgLast' = LastStep(kind \o "_begin", name, None, FALSE, 0)
    /\ spans' = SpanBegin(spans, Cur, NodeBegin)
    /\ UNCHANGED <<globals, functions, status, decls, captures>>

\* generate_unary, after generate_node(left).
EndUnary ==
    /\ CgFrame
    /\ UNCHANGED marks
    /\ Returned("unary", "left")
    /\ gens' = Emit(gens, Op(Top.name, 0))
    /\ open' = Pop(open)
    /\ mode' = ModeAfter(open')
    /\ cgLast' = LastStep("unary", Top.name, None, FALSE, 0)
    /\ spans' = SpanEnd(spans, Cur, CodeEnd(Cur))
    /\ UNCHANGED <<globals, functions, status, nodes, decls, captures>>

\* generate_binary, between generate_node(left) and generate_node(right).
BinaryRight ==
    /\ CgFrame
    /\ UNCHANGED marks
    /\ Returned("binary", "left")
    /\ open' = [open EXCEPT ![Len(open)].phase = "right"]
    /\ mode' = "node"
    /\ cgLast' = LastStep("binary_right", Top.name, None, FALSE, 0)
    /\ UNCHANGED <<globals, functions, gens, status, nodes, decls, captures, spans>>

\* generate_binary, after generate_node(right).
EndBinary ==
    /\ CgFrame
    /\ UNCHANGED marks
    /\ Returned("binary", "right")
    /\ gens' = EmitAll(gens, BinaryOpcodes(Top.name))
    /\ open' = Pop(open)
    /\ mode' = ModeAfter(open')
    /\ cgLast' = LastStep("binary", Top.name, None, FALSE, 0)
    /\ spans' = SpanEnd(spans, Cur, CodeEnd(Cur))
    /\ UNCHANGED <<globals, functions, status, nodes, decls, captures>>

\* generate_and / generate_or, between the operands.
LogicRight ==
    /\ CgFrame
    /\ UNCHANGED marks
    /\ status.kind = "running"
    /\ mode = "ret"
    /\ Top.kind \in LogicKinds
    /\ Top.phase = "left"
    /\ LET jump_past_right == Chunk_len(gens[Cur].chunk)
       IN  /\ gens' = EmitAll(gens, <<Op("Nop", 0), Op("Discard", 0)>>)
           /\ open' = [open EXCEPT ![Len(open)].phase = "right",
                                   ![Len(open)].jump = jump_past_right]
           /\ cgLast' = LastStep(Top.kind \o "_right", "", None, FALSE, jump_past_right)
    /\ mode' = "node"
    /\ UNCHANGED <<globals, functions, status, nodes, decls, captures, spans>>

\* generate_and / generate_or, after generate_node(right).
EndLogic ==
    /\ CgFrame
    /\ UNCHANGED marks
    /\ status.kind = "running"
    /\ mode = "ret"
    /\ Top.kind \in LogicKinds
    /\ Top.phase = "right"
    /\ LET patch == CodeGenerator_jump_past_right(gens[Cur].chunk, Top.kind, Top.jump)
           err == IF Opr24_ok(patch.arg) THEN "" ELSE "OperatorRhsTooLarge"
       IN  /\ status' = Outcome(err, "")
           /\ gens' = IF err = ""
                      THEN [gens EXCEPT ![Cur].chunk = Chunk_patch(@, Top.jump, patch)]
                      ELSE gens
    /\ open' = Pop(open)
    /\ mode' = ModeAfter(open')
    /\ cgLast' = LastStep(Top.kind, "", None, FALSE, Top.jump)
    /\ spans' = SpanEnd(spans, Cur, CodeEnd(Cur))
    /\ UNCHANGED <<globals, functions, nodes, decls, captures>>

\* generate_call: the loop over the arguments calls generate_node once more.
CallArgument ==
    /\ CgFrame
    /\ UNCHANGED marks
    /\ status.kind = "running"
    /\ mode = "ret"
    /\ Top.kind = "call"
    /\ nodes < MaxNodes
    /\ open' = [open EXCEPT ![Len(open)].phase = "argument",
                            ![Len(open)].n = IF Top.phase = "left" THEN 1 ELSE @ + 1]
    /\ mode' = "node"
    /\ cgLast' = LastStep("call_argument", "", None, FALSE, 0)
    /\ UNCHANGED <<globals, functions, gens, status, nodes, decls, captures, spans>>

\* generate_call, after the last argument.
EndCall ==
    /\ CgFrame
    /\ UNCHANGED marks
    /\ status.kind = "running"
    /\ mode = "ret"
    /\ Top.kind = "call"
    /\ LET err == IF Top.n > U8Max THEN "TooManyArguments" ELSE ""
       IN  /\ status' = Outcome(err, "")
           /\ gens' = IF err = "" THEN Emit(gens, Op("Call", Top.n)) ELSE gens
    /\ open' = Pop(open)
    /\ mode' = ModeAfter(open')
    /\ cgLast' = LastStep("call", "", None, FALSE, Top.n)
    /\ spans' = SpanEnd(spans, Cur, CodeEnd(Cur))
    /\ UNCHANGED <<globals, functions, nodes, decls, captures>>

\* generate_if, up to generate_node(condition) of the first branch.
BeginIf ==
    /\ CgFrame
    /\ AtNode
    /\ gens' = [StartGens EXCEPT ![Cur] = Locals_push_scope(@)]
    /\ marks' = MarkPush(marks, Cur, StartGens[Cur])
    /\ open' = Append(StartOpen, IfEntry("condition", 0, <<>>))
    /\ mode' = "node"
    /\ nodes' = nodes + 1
    /\ cgLast' = LastStep("if_begin", "", None, FALSE, 0)
    /\ spans' = SpanBegin(spans, Cur, NodeBegin)
    /\ UNCHANGED <<globals, functions, status, decls, captures>>

\* generate_if, between a branch's condition and its node list.
IfThen ==
    /\ CgFrame
    /\ UNCHANGED marks
    /\ Returned("if", "condition")
    /\ LET jump == Chunk_len(gens[Cur].chunk)
       IN  /\ gens' = EmitAll(gens, <<Op("Nop", 0), Op("Discard", 0)>>)
           /\ open' = Append([open EXCEPT ![Len(open)].phase = "then",
                                          ![Len(open)].jump = jump],
                             ListEntry)
           /\ cgLast' = LastStep("if_then", "", None, FALSE, jump)
    /\ mode' = "list"
    /\ spans' = SpanBegin(spans, Cur, CodeEnd(Cur))
    /\ UNCHANGED <<globals, functions, status, nodes, decls, captures>>

\* generate_if, from the end of an IfBranch to the condition of the next
\* IfBranch (last FALSE) or to the node list of the ElseBranch (last TRUE).
IfNextBranch(last) ==
    /\ CgFrame
    /\ Returned("if", "then")
    /\ last \/ nodes < MaxNodes
    /\ LET b == IfBranchEnd(gens[Cur], Top.jump)
           next == Locals_push_scope(
                      [b.gen EXCEPT !.chunk = Chunk_push(@, Op("Discard", 0))])
           entry == [open EXCEPT ![Len(open)].phase = IF last THEN "else" ELSE "condition",
                                 ![Len(open)].jumps_to_end = Append(@, b.jump_to_end)]
       IN  /\ status' = Outcome(b.err, "")
           /\ gens' = [gens EXCEPT ![Cur] = IF b.err = "" THEN next ELSE b.gen]
           /\ marks' = MarkPush([marks EXCEPT ![Cur] = Pop(@)], Cur, b.gen)
           /\ open' = IF last THEN Append(entry, ListEntry) ELSE entry
           /\ cgLast' = LastStep(IF last THEN "if_else" ELSE "if_elif", "", None, FALSE,
                                 b.jump_to_end)
    /\ decls' = DeclPop(decls, Cur, Len(gens[Cur].scopes))
    /\ mode' = IF last THEN "list" ELSE "node"
    /\ spans' = IF last THEN SpanBegin(spans, Cur, CodeEnd(Cur)) ELSE spans
    /\ UNCHANGED <<globals, functions, nodes, captures>>

\* generate_if, after the node list of the last branch.
EndIf ==
    /\ CgFrame
    /\ status.kind = "running"
    /\ mode = "ret"
    /\ Top.kind = "if"
    /\ Top.phase \in {"then", "else"}
    /\ LET b == IfBranchEnd(gens[Cur], Top.jump)
           g == IF Top.phase = "then" THEN b.gen ELSE Locals_pop_scope(gens[Cur])
           jumps_to_end == IF Top.phase = "then"
                           THEN Append(Top.jumps_to_end, b.jump_to_end)
                           ELSE Top.jumps_to_end
           fits == \A i \in DOMAIN jumps_to_end :
                      Opr24_ok(Chunk_len(g.chunk) - jumps_to_end[i])
           err == IF Top.phase = "then" /\ b.err # "" THEN b.err
                  ELSE IF fits THEN "" ELSE "IfExpressionTooLarge"
       IN  /\ status' = Outcome(err, "")
           /\ gens' = [gens EXCEPT ![Cur] =
                         IF err = "" THEN [g EXCEPT !.chunk = PatchJumpsToEnd(@, jumps_to_end)]
                         ELSE g]
           /\ cgLast' = LastStep("if_end", "", None, FALSE, Len(jumps_to_end))
    /\ decls' = DeclPop(decls, Cur, Len(gens[Cur].scopes))
    /\ marks' = [marks EXCEPT ![Cur] = Pop(@)]
    /\ open' = Pop(open)
    /\ mode' = ModeAfter(open')
    /\ spans' = SpanEnd(spans, Cur, CodeEnd(Cur))
    /\ UNCHANGED <<globals, functions, nodes, captures>>

ExprNext ==
    \/ \E k \in ExprLiteralKinds : GenLiteral(k)
    \/ \E name \in ExprNames : GenVariable(name)
    \/ \E target \in ExprNames : BeginAssign(target)
    \/ EndAssign
    \/ \E kind \in UnaryKinds : BeginOperator("unary", kind)
    \/ EndUnary
    \/ \E kind \in BinaryKinds : BeginOperator("binary", kind)
    \/ BinaryRight
    \/ EndBinary
    \/ \E kind \in LogicKinds : BeginOperator(kind, "")
    \/ LogicRight
    \/ EndLogic
    \/ BeginOperator("call", "")
    \/ CallArgument
    \/ EndCall
    \/ BeginIf
    \/ IfThen
    \/ \E last \in BOOLEAN : IfNextBranch(last)
    \/ EndIf
    \/ BeginDo
    \/ EndList
    \/ EndDo
    \/ BeginWhile
    \/ WhileBody
    \/ EndWhile
    \/ BeginBreak
    \/ EndBreak
    \/ \E head \in ExprFuncHeads : BeginFunc(head[1], head[2])
    \/ EndFunc
    \/ EndMain

vars == <<upVars, valVars, cgVars, engVars, tyVars>>

Init == UpInit /\ ValInit /\ CgInit /\ EngInit /\ TyInit

SpecUpvalue == Init /\ [][UpNext]_vars

SpecValue == Init /\ [][ValNext]_vars

SpecCodegen == Init /\ [][CgNext]_vars

SpecCodegenExpr == Init /\ [][ExprNext]_vars

SpecEngine == Init /\ [][EngNext]_vars

SpecTypes == Init /\ [][TyNext]_vars

(***************************************************************************)
(*                               Claims                                    *)
(***************************************************************************)

\* close() has been called on upvalue u (written[u] is set by close).
WasClosed(u) == written[u] # Uninit

\* C1: once an upvalue over a stack slot has been closed, get() returns the
\* value the slot held at the moment of close or, after later set(v) calls,
\* the most recently set v; writes to the former stack slot are not observed.
C1_ClosedUpvalueKeepsValue ==
    \A u \in UpIds :
        WasClosed(u) =>
            /\ Upvalue_get(upvalues[u], stack) = written[u]
            /\ (uvLast.op = "get" /\ uvLast.u = u => got = written[u])

\* A get() on a closed upvalue returns the value it was set to while every
\* stack slot has since been overwritten with another value.
C1_Witness ==
    /\ uvLast.op = "get"
    /\ WasClosed(uvLast.u)
    /\ got = NumberValue(2)
    /\ \A i \in Slots : stack[i] = NumberValue(1)

\* C2: while an upvalue is open it and its stack slot are the same variable:
\* a set(v) through the upvalue is read back from the slot, a write to the
\* slot is read back by get(), and reads through either path agree.
C2_OpenUpvalueAliasesSlot ==
    /\ (uvLast.op = "set" /\ uvLast.slot \in Slots
            => stack[uvLast.slot] = uvLast.val)
    /\ (uvLast.op = "stack_write"
            => \A u \in UpIds :
                  IsOpen(u) /\ upvalues[u].ptr.slot = uvLast.slot
                      => Upvalue_get(upvalues[u], stack) = uvLast.val)
    /\ (uvLast.op = "get" /\ uvLast.slot \in Slots => got = stack[uvLast.slot])
    /\ \A u \in UpIds :
          IsOpen(u) => Upvalue_get(upvalues[u], stack) = stack[upvalues[u].ptr.slot]

\* A set(v) through an open upvalue that shows in the stack slot, with a
\* second open upvalue over the same slot reading it too.
C2_Witness ==
    /\ uvLast.op = "set"
    /\ uvLast.val = NumberValue(2)
    /\ \A u \in UpIds : IsOpen(u) /\ upvalues[u].ptr.slot = uvLast.slot
    /\ stack[uvLast.slot] = NumberValue(2)

\* C10: the portable and the NaN-boxed encoding give the same equality answer
\* for the same logical values: two function or two struct values are equal
\* exactly when they carry the same heap object, two string values exactly
\* when their contents are equal, however the handle was wrapped.
C10_EncodingsAgreeOnEquality ==
    \A i, j \in Live :
        LET a == vals[i]
            b == vals[j]
            neq == Nanbox_eq(a.n, b.n, boxes)
        IN  a.p.kind \in {"Function", "Struct", "String"} /\ a.p.kind = b.p.kind
                => /\ neq = Portable_eq(a.p, b.p)
                   /\ (a.p.kind \in {"Function", "Struct"} => (neq <=> a.p.h = b.p.h))
                   /\ (a.p.kind = "String"
                          => (neq <=> StringContent(a.p.h) = StringContent(b.p.h)))

\* ---- variable resolution in the code generator ----

\* The last step was a lookup of cgLast.name by generator cgLast.gen (a
\* variable read, or an assignment after its value was generated).
LookupStep == cgLast.op \in {"read", "assign"}
\* Generator d declares the name in one of its open scopes.
DeclaredIn(d, name) == Locals_lookup_own(gens[d], name) # None
\* The stack slot the name occupies in generator d.
SlotIn(d, name) == Locals_lookup_own(gens[d], name).slot

\* C3: a name referenced from a function nested directly inside the function
\* that declares it resolves to an upvalue, and the inner function's
\* captured_locals then contains the slot the name occupies in the parent.
C3_CapturedLocalsHoldParentSlot ==
    (/\ LookupStep
     /\ cgLast.gen > 1
     /\ ~DeclaredIn(cgLast.gen, cgLast.name)
     /\ DeclaredIn(cgLast.gen - 1, cgLast.name))
    => /\ status = Running
       /\ cgLast.place.kind = "Upvalue"
       /\ SlotIn(cgLast.gen - 1, cgLast.name) \in gens[cgLast.gen].captured_locals

\* C4: a local of F referenced in a function nested two or more levels below
\* F, with no nearer declaration, is resolved to an upvalue; the lookup
\* completes with a place.
C4_TransitiveCaptureResolves ==
    (/\ LookupStep
     /\ \E f \in 1..(cgLast.gen - 2) :
           /\ DeclaredIn(f, cgLast.name)
           /\ \A d \in (f + 1)..cgLast.gen : ~DeclaredIn(d, cgLast.name))
    => /\ status = Running
       /\ cgLast.place.kind = "Upvalue"

\* The declarations of the name that are live in generator d, oldest first.
LiveDecls(d, name) == SelectSeq(decls[d], LAMBDA e : e.name = name)

\* C5: inside one function, a name created in a scope that is still open
\* resolves to Local(slot) with the slot assigned at its creation, and of
\* several open scopes holding the name the innermost is chosen.
C5_LocalResolvesToDeclaredSlot ==
    (LookupStep /\ LiveDecls(cgLast.gen, cgLast.name) # <<>>)
    => LET ds == LiveDecls(cgLast.gen, cgLast.name)
           innermost == ds[Len(ds)]
       IN  /\ \A i \in 1..Len(ds) : ds[i].depth <= innermost.depth
           /\ status = Running
           /\ cgLast.place = Local(innermost.slot)

\* A read found a local while two open scopes at different depths hold the name.
C5_Witness ==
    /\ cgLast.op = "read"
    /\ status = Running
    /\ cgLast.place.kind = "Local"
    /\ \E i, j \in 1..Len(LiveDecls(cgLast.gen, cgLast.name)) :
          LiveDecls(cgLast.gen, cgLast.name)[i].depth
             < LiveDecls(cgLast.gen, cgLast.name)[j].depth

\* No open scope of any generator declares the name.
NoLocalOf(name) == \A d \in 1..Len(gens) : ~DeclaredIn(d, name)

C6_Step ==
    LET name == cgLast'.name
        known == Env_get_global(globals, name)
    IN  /\ (/\ cgLast'.op \in {"read", "assign"}
            /\ known # None
            /\ NoLocalOf(name))
           => /\ status' = Running
              /\ cgLast'.place = known
              /\ globals' = globals
        /\ (/\ cgLast'.op = "assign"
            /\ name # NonIdentifier
            /\ known = None
            /\ Len(gens) = 1 /\ gens[1].scopes = <<>>)
           => /\ status' = Running
              /\ globals' = Append(globals, name)
              /\ cgLast'.place = Global(Len(globals))
        /\ \A i \in 1..Len(globals) : globals'[i] = globals[i]
        /\ \A i, j \in 1..Len(globals') : globals'[i] = globals'[j] => i = j

\* C6: at top level the first assignment to an unknown name creates exactly
\* one global; every later assignment to or read of the name, from any
\* function without a local or captured variable of that name, uses that
\* global's slot and creates no further global; no global ever changes slot.
C6_GlobalCreatedOnceAndReused == [][C6_Step]_vars

\* A function body read a global that no function declaration created.
C6_Witness ==
    /\ cgLast.op = "read"
    /\ cgLast.gen > 1
    /\ status = Running
    /\ cgLast.place.kind = "Global"
    /\ \A i \in 1..Len(open) : open[i].name # cgLast.name
    /\ \A i \in 1..Len(functions) : functions[i].name # cgLast.name

C7_Step ==
    LET name == cgLast'.name
    IN  /\ (cgLast'.op \in {"read", "assign"} /\ cgLast'.place.kind = "Global")
           => NoLocalOf(name)
        /\ (/\ cgLast'.op = "read"
            /\ NoLocalOf(name)
            /\ Env_get_global(globals, name) = None)
           => /\ status' = Failed("VariableDoesNotExist", name)
              /\ globals' = globals
              /\ Len(gens') = Len(gens)
              /\ \A d \in 1..Len(gens) :
                    /\ gens'[d].scopes = gens[d].scopes
                    /\ gens'[d].local_count = gens[d].local_count
                    /\ gens'[d].upvalue_indices = gens[d].upvalue_indices
                    /\ gens'[d].captured_locals = gens[d].captured_locals

\* C7: a lookup resolves to a global only when no open scope of the current
\* or of an enclosing function declares the name; when no global of the name
\* exists either, a read fails with VariableDoesNotExist(name) and creates no
\* variable.
C7_GlobalOnlyWhenNoLocal == [][C7_Step]_vars

\* A read inside a function body failed although another global exists.
C7_Witness ==
    /\ cgLast.op = "read"
    /\ cgLast.gen > 1
    /\ status = Failed("VariableDoesNotExist", cgLast.name)
    /\ globals # <<>>

\* C8: a break is accepted exactly when the generator compiling it has an
\* open breakable block, and is then recorded in the innermost one only;
\* otherwise it fails with BreakOutsideOfLoop, whatever loops enclose the
\* function declaration.
C8_BreakNeedsOwnBreakableBlock ==
    cgLast.op = "break"
    => LET blocks == gens[cgLast.gen].breakable_blocks
           recorded(k) == \E i \in 1..Len(blocks[k].breaks) :
                             blocks[k].breaks[i] = cgLast.at
       IN  IF blocks # <<>>
           THEN /\ status = Running
                /\ recorded(Len(blocks))
                /\ \A k \in 1..(Len(blocks) - 1) : ~recorded(k)
           ELSE status = Failed("BreakOutsideOfLoop", "")

\* A break in a function declared inside a while loop failed.
C8_Witness ==
    /\ cgLast.op = "break"
    /\ status = Failed("BreakOutsideOfLoop", "")
    /\ \E i, j \in 1..Len(open) :
          i < j /\ open[i].kind = "while" /\ open[j].kind = "func"

\* C9: a reference to the name of a named function inside the function's
\* body always resolves.
C9_OwnNameResolvesInBody ==
    (/\ LookupStep
     /\ \E i \in 1..Len(open) : open[i].kind = "func" /\ open[i].name = cgLast.name)
    => status = Running

\* ---- equality of values ----

\* The values built so far, in each encoding.
PVal(i) == vals[i].p
NVal(i) == vals[i].n
NEq(i, j) == Nanbox_eq(NVal(i), NVal(j), boxes)
IsValue(i) == PVal(i).kind \in ValueVariants

Carriers(k) ==
    {i \in Live : Nanbox_is_object(NVal(i)) /\ BoxOf(Nanbox_object_pointer(NVal(i))) = k}

\* C12: the strong count of every boxed handle equals the number of live
\* values carrying it; the box is released exactly when that number reached
\* zero, never while a value is live and never twice; values that are not
\* objects change no count.
C12_StrongCountIsLiveValues ==
    /\ \A k \in 1..Len(boxes) :
          /\ boxes[k].strong = Cardinality(Carriers(k))
          /\ Cardinality({n \in 1..Len(freed) : freed[n] = k})
                = (IF Carriers(k) = {} THEN 1 ELSE 0)
    /\ Len(boxes)
          = Cardinality({i \in 1..Len(vals) : Nanbox_is_object(NVal(i)) /\ vals[i].from = 0})

\* A cloned object value was dropped and its box lived on; then the last
\* value was dropped and the box was released.
C12_Witness ==
    /\ valLast.op = "drop"
    /\ freed # <<>>
    /\ \E i, j \in dropped :
          /\ vals[j].from = i
          /\ Nanbox_is_object(NVal(i))

\* ---- classification of words in the compact encoding ----

\* C13: for every word a constructed value holds, kind() is Number exactly
\* when is_number() holds, and such a word is compared as a number.
C13_KindNumberIffIsNumber ==
    \A i \in Live :
        /\ (Nanbox_kind(NVal(i)) = "Number") <=> Nanbox_is_number(NVal(i))
        /\ Nanbox_kind(NVal(i)) = "Number" => (NEq(i, i) <=> FloatEq(NVal(i), NVal(i)))

\* The object tag that belongs to a kind of heap object.
TagOf(kind) ==
    CASE kind = "String" -> OBJECT_STRING
      [] kind = "Function" -> OBJECT_FUNCTION
      [] kind = "Struct" -> OBJECT_STRUCT
      [] kind = "UserData" -> OBJECT_USER_DATA

\* C14: an object value built from a tag and a non-null aligned pointer
\* decodes to that tag and that pointer, is classified as an object and
\* never as a number, nil or boolean, and kind() is the kind of the tag.
C14_ObjectRoundTrip ==
    /\ \A i \in Live :
          PVal(i).kind \in ObjectKinds
          => /\ Nanbox_object_tag(NVal(i)) = TagOf(PVal(i).kind)
             /\ Nanbox_object_pointer(NVal(i)) % RcAlign = 0
             /\ BoxOf(Nanbox_object_pointer(NVal(i))) \in 1..Len(boxes)
             /\ Nanbox_as_rc(NVal(i), boxes) = PVal(i).h
             /\ Nanbox_is_object(NVal(i))
             /\ ~Nanbox_is_number(NVal(i))
             /\ NVal(i) \notin {NIL_BITS, TRUE_BITS, FALSE_BITS}
             /\ Nanbox_kind(NVal(i)) = PVal(i).kind
    /\ valLast.op = "new_object"
          => Nanbox_object_pointer(NVal(Len(vals))) = BoxAddr(Len(boxes))

\* A user-data value was built over the second outer box.
C14_Witness ==
    /\ valLast.op = "new_object"
    /\ Len(boxes) = 2
    /\ PVal(Len(vals)).kind = "UserData"
    /\ Len(vals) \in Live

\* What the last Engine operation returned, when it was a call_method.
CallMethodDone == eLast.op = "call_method"

C16_ExactArityIsDispatched ==
    (CallMethodDone /\ eLast.n = eLast.a) =>
        /\ eLast.result.kind \notin {"TooManyArguments", "ArgumentCount"}
        /\ eLast.result.kind = "CallMethod"
        /\ eLast.result.argc = 1 + eLast.a

\* What get(name) returns in the state after a step.
GetNow(name) == Engine_get(eGlobals', eValues', name)

C17_Step ==
    \* a name that was set reads as the value of its last set
    /\ \A name \in Names : eSet'[name] # Uninit => GetNow(name) = eSet'[name]
    \* get returns that value, returns nil for a name that does not exist,
    \* and creates nothing
    /\ eLast'.op = "get" =>
           /\ eLast'.value = Engine_get(eGlobals, eValues, eLast'.name)
           /\ Env_get_global(eGlobals, eLast'.name) = None => eLast'.value = ValueDefault
           /\ eGlobals' = eGlobals
    \* the id of a name never changes, and global_id returns it
    /\ \A name \in Names :
           Env_get_global(eGlobals, name) # None =>
               Env_get_global(eGlobals', name) = Env_get_global(eGlobals, name)
    /\ eLast'.op = "global_id" =>
           /\ eLast'.result.kind = ""
           /\ Env_get_global(eGlobals', eLast'.name) = Global(eLast'.id)

\* C17: after set(name, v), get(name) returns v until the next set of the
\* same name, whatever sets of other names, global_id or get calls happen in
\* between; get of a name that was never created returns nil and creates no
\* global; global_id returns the same id for the same name on every call.
C17_SetGetGlobalId == [][C17_Step]_vars

C17_Witness ==
    /\ eLast.op = "get" /\ eLast.name = "x"
    /\ eSet["x"] = NumberValue(1) /\ eLast.value = NumberValue(1)
    /\ eSet["y"] = NumberValue(2)
    /\ eGlobals = <<"y", "x">>

\* The last build succeeded.
Built_ok == tLast.op = "build" /\ tLast.built.err = ""
\* The method index interned for a signature.
InternedIndex(sig) == (CHOOSE i \in 1..Len(tMethods) : tMethods[i] = sig) - 1
\* The table holds, at the index of the method's signature, a closure of a
\* function made from that method.
IsSetIn(dtable, method) ==
    LET closure == DispatchTable_get_method(dtable, InternedIndex(method.signature))
    IN  /\ closure # NoMethod
        /\ closure.function_id + 1 \in DOMAIN tLast.built.functions
        /\ tLast.built.functions[closure.function_id + 1].f = method.f
        /\ tLast.built.functions[closure.function_id + 1].parameter_count
               = method.signature.arity
SignaturesOf(methods) == {methods[k].signature : k \in DOMAIN methods}
\* A method that no later registration of the same list replaces.
IsLastOf(methods, k) ==
    \A j \in DOMAIN methods : j > k => methods[j].signature # methods[k].signature
\* One-sided signatures are unset on the other side; the tables are linked.
OneSidedAndLinked ==
    LET tb == tLast.builder
        b == tLast.built
    IN  /\ \A sig \in SignaturesOf(tb.instance_dtable) \ SignaturesOf(tb.type_dtable) :
               DispatchTable_get_method(b.type_dtable, InternedIndex(sig)) = NoMethod
        /\ \A sig \in SignaturesOf(tb.type_dtable) \ SignaturesOf(tb.instance_dtable) :
               DispatchTable_get_method(b.instance_dtable, InternedIndex(sig)) = NoMethod
        /\ b.type_dtable.kind = "Type" /\ b.instance_dtable.kind = "Instance"
        /\ b.type_dtable.instance = b.instance_dtable

\* C18 (as stated): after build succeeds, every function registered as an
\* instance function is set in the instance table at the index of its
\* signature, every function registered as a static function is set in the
\* type table at the index of its signature, a signature registered on one
\* side only is unset in the other table, and the type table links to the
\* built instance table.
C18_EveryRegisteredFunctionIsSet ==
    Built_ok =>
        /\ \A k \in DOMAIN tLast.builder.instance_dtable :
               IsSetIn(tLast.built.instance_dtable, tLast.builder.instance_dtable[k])
        /\ \A k \in DOMAIN tLast.builder.type_dtable :
               IsSetIn(tLast.built.type_dtable, tLast.builder.type_dtable[k])
        /\ OneSidedAndLinked

\* C18 (amended): after build succeeds, for every signature registered on the
\* instance side the function registered last with it is set in the instance
\* table at the index of the signature, likewise for the static side and the
\* type table (an earlier function with the same signature on the same side
\* is replaced), a signature registered on one side only is unset in the
\* other table, and the type table links to the built instance table.
C18_LastRegisteredFunctionIsSet ==
    Built_ok =>
        /\ \A k \in DOMAIN tLast.builder.instance_dtable :
               IsLastOf(tLast.builder.instance_dtable, k) =>
                   IsSetIn(tLast.built.instance_dtable, tLast.builder.instance_dtable[k])
        /\ \A k \in DOMAIN tLast.builder.type_dtable :
               IsLastOf(tLast.builder.type_dtable, k) =>
                   IsSetIn(tLast.built.type_dtable, tLast.builder.type_dtable[k])
        /\ OneSidedAndLinked

C18_Witness ==
    /\ Built_ok
    /\ tMethods = <<Signature("m", 1), Signature("m", 2), Signature("n", 1)>>
    /\ tLast.builder.type_dtable = <<Method("m", 2, "fa")>>
    /\ tLast.builder.instance_dtable = <<Method("n", 1, "fb")>>
    /\ tLast.built.type_dtable.methods = <<NoMethod, Closure(1)>>
    /\ tLast.built.instance_dtable.methods = <<NoMethod, NoMethod, Closure(2)>>
    /\ tLast.built.type_dtable.instance = tLast.built.instance_dtable

\* C19: when code generation of a script fails with an error, the
\* Environment holds no global that it did not hold before code generation
\* started (it started with none).
C19_FailureLeavesNoGlobal ==
    status.kind = "error" => globals = <<>>

\* C20: code generation of a Return node evaluates the node's optional
\* expression, emits a jump to the function epilogue, and finishes with Ok or
\* a compile error like every other node kind (it does not panic).
C20_ReturnIsGenerated ==
    cgLast.op = "return" => status.kind \in {"running", "ok", "error"}

\* C21: within one nested function, every reference to the same captured
\* parent variable resolves to the same upvalue index.
C21_SameVariableSameUpvalue ==
    \A d \in DOMAIN captures : \A c1, c2 \in captures[d] :
        c1[1] = c2[1] => c1[2] = c2[2]

\* C22: within one nested function, references to two different captured
\* parent variables never resolve to the same upvalue index.
C22_DifferentVariablesDifferentUpvalues ==
    \A d \in DOMAIN captures : \A c1, c2 \in captures[d] :
        c1[1] # c2[1] => c1[2] # c2[2]

\* A step that closes upvalue u again, after it was closed already.
ClosesAgain(u) ==
    /\ IsClosed(u)
    /\ uvLast'.op = "close" /\ uvLast'.u = u

C29_Step ==
    \A u \in UpIds :
        ClosesAgain(u) =>
            /\ Upvalue_get(upvalues'[u], stack') = Upvalue_get(upvalues[u], stack)
            /\ upvalues'[u].ptr = PtrClosed
            /\ stack' = stack
            \* its own storage is what set writes and get reads afterwards
            /\ \A v \in UpValueSet :
                   LET r == Upvalue_set(upvalues'[u], stack', v)
                   IN  r.stk = stack' /\ Upvalue_get(r.up, r.stk) = v

\* C29: closing an upvalue is idempotent: close() on an already closed
\* upvalue leaves get() returning the same value as before the second close,
\* and the upvalue keeps reading and writing its own storage.
C29_CloseIsIdempotent == [][C29_Step]_vars

C29_Witness ==
    /\ uvLast.op = "close" /\ uvLast.slot = PtrClosed.slot
    /\ uvLast.u \in UpIds
    /\ uvLast.val = NumberValue(1)
    /\ upvalues[uvLast.u] = [ptr |-> PtrClosed, closed |-> NumberValue(1)]
    /\ stack = [i \in Slots |-> NumberValue(2)]

\* C30: Value::try_partial_cmp is consistent with equality: it returns a type
\* error exactly when the two values have different types, and for two values
\* of the same type it returns Some(Equal) exactly when they are equal under ==.
C30_CmpConsistentWithEq ==
    \A i, j \in Live :
        (IsValue(i) /\ IsValue(j)) =>
            /\ (Value_try_partial_cmp(PVal(i), PVal(j)) = "TypeError")
                   <=> (Value_typ(PVal(i)) # Value_typ(PVal(j)))
            /\ Value_typ(PVal(i)) = Value_typ(PVal(j)) =>
                   ((Value_try_partial_cmp(PVal(i), PVal(j)) = "Equal")
                        <=> Value_eq(PVal(i), PVal(j)))

\* The counts of generator g are those recorded when its innermost open
\* scope was pushed.
CountsRestored(g, mk) ==
    /\ g.local_count = mk[Len(mk)].local_count
    /\ g.allocated_local_count = mk[Len(mk)].allocated_local_count

C25_Step ==
    /\ (cgLast'.op \in {"do_end", "while_end"} /\ status'.kind = "running" /\ marks' # marks)
           => CountsRestored(gens'[Cur], marks[Cur])
    /\ (cgLast'.op = "func_end" /\ marks' # marks)
           => CountsRestored(Locals_pop_scope(gens[Cur]), marks[Cur])

\* C25: for every matching push_scope / pop_scope pair of a Locals,
\* local_count and allocated_local_count after the pop equal their values
\* before the push, whatever was declared in between.
C25_PopRestoresCounts == [][C25_Step]_vars

\* The larger of two counts.
Larger(a, b) == IF a > b THEN a ELSE b

C27_Step ==
    \* a chunk that is being generated before and after the step
    /\ \A d \in 1..Len(gens) :
           d <= Len(gens') =>
               /\ gens'[d].preallocate_stack_slots >= gens[d].preallocate_stack_slots
               /\ gens'[d].preallocate_stack_slots =
                      Larger(gens[d].preallocate_stack_slots,
                             gens'[d].allocated_local_count)
               \* a step of a nested function leaves it alone
               /\ d < Len(gens) =>
                      gens'[d].preallocate_stack_slots = gens[d].preallocate_stack_slots
    \* a chunk that begins: its parameters are not counted
    /\ Len(gens') > Len(gens) =>
           /\ gens'[Len(gens')].preallocate_stack_slots = 0
           /\ gens'[Len(gens')].allocated_local_count = 0

\* C27: the chunk's preallocate_stack_slots is the largest value
\* allocated_local_count reached while the chunk was generated; it never
\* decreases, counts only variables created with Allocate (never
\* parameters), and is not changed by variables of nested functions.
C27_PreallocateIsMaxAllocated == [][C27_Step]_vars

C27_Witness ==
    /\ Len(gens) = 2
    /\ cgLast.op = "do_end"
    /\ gens[2].local_count = 2
    /\ gens[2].allocated_local_count = 0
    /\ gens[2].preallocate_stack_slots = 1
    /\ gens[1].preallocate_stack_slots = 0

\* The offset a jump at `offset` of `chunk` lands on.
JumpTarget(chunk, offset) ==
    IF chunk[offset + 1].op = "JumpBackward" THEN offset - chunk[offset + 1].arg
    ELSE offset + chunk[offset + 1].arg
\* The instruction at an offset.
At(chunk, offset) == chunk[offset + 1]

\* A while loop was completed by the step.
WhileEnds == cgLast'.op = "while_end" /\ status'.kind = "running" /\ marks' # marks
\* The breakable block of that loop, its code and the offset of its last
\* instruction.
EndedBlock == gens[Cur].breakable_blocks[Len(gens[Cur].breakable_blocks)]
EndedCode == gens'[Cur].chunk
EndedLast == Chunk_len(EndedCode) - 1

\* The markers of the loop itself, and its backward jump.
OwnMarkers ==
    LET nil == IF EndedBlock.breaks = <<>> THEN EndedLast ELSE EndedLast - 1
    IN  /\ EndedBlock.breaks = <<>> =>
               /\ At(EndedCode, EndedBlock.start) = Op("Nop", 0)
               /\ At(EndedCode, EndedLast).op # "ExitBreakableBlock"
        /\ EndedBlock.breaks # <<>> =>
               /\ At(EndedCode, EndedBlock.start) = Op("EnterBreakableBlock", 0)
               /\ At(EndedCode, EndedLast) = Op("ExitBreakableBlock", 1)
               /\ \A k \in DOMAIN EndedBlock.breaks :
                      /\ At(EndedCode, EndedBlock.breaks[k]).op = "JumpForward"
                      /\ JumpTarget(EndedCode, EndedBlock.breaks[k]) = EndedLast
        \* the fallback nil precedes the exit marker: there is one exit marker
        /\ At(EndedCode, nil) = Op("PushNil", 0)
        /\ At(EndedCode, nil - 2).op = "JumpBackward"
        /\ JumpTarget(EndedCode, nil - 2) = EndedBlock.start + 1

C24_StepAsStated ==
    WhileEnds =>
        /\ OwnMarkers
        /\ EndedBlock.breaks = <<>> =>
               \A o \in EndedBlock.start..EndedLast :
                   At(EndedCode, o).op \notin {"EnterBreakableBlock", "ExitBreakableBlock"}

\* C24 (as stated): a while loop in which no break was recorded contains
\* neither EnterBreakableBlock nor ExitBreakableBlock and its start marker
\* stays Nop; a loop with a break has its start marker patched to
\* EnterBreakableBlock, ends with exactly one ExitBreakableBlock(1), and every
\* break recorded for it is a forward jump to that ExitBreakableBlock.  The
\* backward jump targets the first instruction of the condition.
C24_NoBreakNoMarkersAnywhere == [][C24_StepAsStated]_vars

C24_Step == WhileEnds => OwnMarkers

\* C24 (amended): a while loop in which no break was recorded keeps its own
\* start marker Nop and appends no ExitBreakableBlock of its own (a loop
\* nested in its condition or body may hold its own markers); a loop with a
\* break has its start marker patched to EnterBreakableBlock, ends with
\* exactly one ExitBreakableBlock(1), and every break recorded for it is a
\* forward jump to that ExitBreakableBlock.  The backward jump targets the
\* first instruction of the condition, after the start marker.
C24_BreakableBlockMarkers == [][C24_Step]_vars

C24_Witness ==
    /\ cgLast.op = "while_end" /\ status.kind = "running"
    /\ Len(gens) = 1
    /\ Chunk_len(gens[1].chunk) > 3
    /\ At(gens[1].chunk, 0) = Op("EnterBreakableBlock", 0)
    /\ At(gens[1].chunk, Chunk_len(gens[1].chunk) - 1) = Op("ExitBreakableBlock", 1)
    /\ \E o \in 1..(Chunk_len(gens[1].chunk) - 2) :
           /\ At(gens[1].chunk, o).op = "JumpForward"
           /\ JumpTarget(gens[1].chunk, o) = Chunk_len(gens[1].chunk) - 1

\* The generator that runs the handler open[i]: a function's handler runs in
\* the enclosing generator, the handlers above it in the nested one.
GeneratorOf(i) == 1 + Cardinality({j \in 1..(i - 1) : open[j].kind = "func"})
\* The handlers of generator d that are between their push_scope /
\* push_breakable_block and the matching pop.
ScopedHandlers(d) ==
    {i \in DOMAIN open : GeneratorOf(i) = d /\ open[i].kind \in {"do", "while", "if"}}
LoopHandlers(d) == {i \in DOMAIN open : GeneratorOf(i) = d /\ open[i].kind = "while"}
\* The depths of every generator are those of the handlers that are still
\* running: a node that returned Ok (its handler is no longer open) left the
\* scope stack and the breakable-block stack as deep as it found them.
DepthsMatch ==
    status.kind \in {"running", "ok"} =>
        /\ Len(gens) = GeneratorOf(Len(open) + 1)
        /\ \A d \in DOMAIN gens :
              /\ Len(gens[d].scopes) =
                    Cardinality(ScopedHandlers(d)) + (IF d > 1 THEN 1 ELSE 0)
              /\ Len(gens[d].breakable_blocks) = Cardinality(LoopHandlers(d))
\* The part of a Locals that a nested function must give back untouched.
Frame(g) == [scopes |-> g.scopes, local_count |-> g.local_count,
             allocated_local_count |-> g.allocated_local_count]
\* From mem::take(&mut self.locals) to self.locals = parent.take().unwrap():
\* no step of a nested generator, and not the return into the enclosing one,
\* changes the Frame of a generator below the running one.
EnclosingKept ==
    status'.kind = "running" =>
        \A d \in 1..(Len(gens) - 1) : d <= Len(gens') => Frame(gens'[d]) = Frame(gens[d])
C26_Step == DepthsMatch' /\ EnclosingKept
\* C26: when a node returns Ok the scope depth and the breakable-block depth
\* of the generator are what they were before the node, and while a nested
\* function is compiled (and when it returns) the enclosing function's
\* scopes, local_count and allocated_local_count stay exactly as they were
\* when the nested generator took them; only upvalue_indices may grow.
C26_DepthsAndEnclosingFrame == [][C26_Step]_vars
\* A nested function that captured a local of a function whose scopes are
\* not empty has returned.
C26_Witness ==
    /\ cgLast.op = "func_end"
    /\ status.kind = "running"
    /\ Len(gens) = 2
    /\ gens[2].upvalue_indices # <<>>
    /\ Len(gens[2].scopes) = 1

\* ---- the value stack of the VM while it runs a chunk ----

\* The largest height followed on a path: a loop that grows the stack is cut
\* off there and reported.
HeightCap == 6

\* The slots an instruction takes in the chunk: PushNumber and PushString are
\* followed by their payload.
Opcode_width(op) == IF op.op \in {"PushNumber", "PushString"} THEN 2 ELSE 1

\* The change of the height of the value stack by an instruction that is not
\* a jump and not a block marker.
Opcode_stack_effect(op) ==
    CASE op.op \in {"PushNil", "PushTrue", "PushFalse", "PushNumber", "PushString",
                    "GetLocal", "GetGlobal", "GetUpvalue", "CreateClosure"} -> 1
      [] op.op \in {"Discard", "Add", "Subtract", "Multiply", "Divide",
                    "Equal", "Less", "LessEqual"} -> -1
      [] op.op = "Call" -> -op.arg
      [] OTHER -> 0

\* The fiber at an instruction: its offset, the height of the value stack
\* above the height at the start of the path, and the heights recorded by the
\* breakable blocks entered on the path.
Fiber(pc, height, blocks) == [pc |-> pc, height |-> height, blocks |-> blocks]

\* The fibers after the instruction at f.pc; `leaving` are the offsets of
\* break jumps that are not patched yet (their target is outside the code
\* that is followed).
Fiber_step(chunk, f, leaving) ==
    LET op == At(chunk, f.pc)
        target == JumpTarget(chunk, f.pc)
    IN  CASE f.pc \in leaving \/ op.op \in {"Return", "Halt"} -> {}
          [] op.op \in {"JumpForward", "JumpBackward"} ->
                {Fiber(target, f.height, f.blocks)}
          [] op.op \in {"JumpForwardIfFalsy", "JumpForwardIfTruthy"} ->
                {Fiber(target, f.height, f.blocks), Fiber(f.pc + 1, f.height, f.blocks)}
          [] op.op = "EnterBreakableBlock" ->
                {Fiber(f.pc + 1, f.height, Append(f.blocks, f.height))}
          [] op.op = "ExitBreakableBlock" ->
                IF Len(f.blocks) < op.arg THEN {Fiber(f.pc + 1, -1, <<>>)}
                ELSE {Fiber(f.pc + 1, f.blocks[Len(f.blocks) - op.arg + 1] + 1,
                            SubSeq(f.blocks, 1, Len(f.blocks) - op.arg))}
          [] OTHER ->
                {Fiber(f.pc + Opcode_width(op), f.height + Opcode_stack_effect(op),
                       f.blocks)}

RECURSIVE Fiber_run(_, _, _, _, _, _)
\* Every fiber on a path from `frontier` that stays in begin..end - 1.
Fiber_run(chunk, begin, end, leaving, frontier, seen) ==
    LET inside == {f \in frontier : /\ begin <= f.pc /\ f.pc < end
                                     /\ 0 <= f.height /\ f.height <= HeightCap}
        next == UNION {Fiber_step(chunk, f, leaving) : f \in inside} \ seen
    IN  IF next = {} THEN seen
        ELSE Fiber_run(chunk, begin, end, leaving, next, seen \cup next)

\* The code at begin..end - 1 leaves exactly one more value: every path from
\* its first instruction that arrives at `end` does so one higher and with no
\* block left entered, no path drops below the start or grows without bound,
\* and some path arrives at `end` unless a jump in the code leaves it.
LeavesOneValue(chunk, begin, end, leaving) ==
    LET first == {Fiber(begin, 0, <<>>)}
        fibers == Fiber_run(chunk, begin, end, leaving, first, first)
        ends == {f \in fibers : f.pc = end}
        leaves == \E f \in fibers :
                    \/ f.pc < begin
                    \/ f.pc > end
                    \/ (f.pc < end /\ f.pc \in leaving)
    IN  /\ \A f \in fibers : 0 <= f.height /\ f.height <= HeightCap
        /\ \A f \in ends : f.height = 1 /\ f.blocks = <<>>
        /\ ends # {} \/ leaves

\* The step ends the code of a chunk: generate_function pushed Return, or
\* generate pushed Halt.
ChunkEnds == cgLast'.op \in {"func_end", "halt"} /\ status'.kind \in {"running", "ok"}
\* The chunk that ended, without its Return or Halt.
EndedChunk ==
    IF cgLast'.op = "halt" THEN gens'[1].chunk
    ELSE functions'[Len(functions')].chunk
C23_Step ==
    ChunkEnds =>
        \A span \in spans[Cur].done : LeavesOneValue(EndedChunk, span[1], span[2], {})
LogicEnds == cgLast'.op \in LogicKinds /\ status'.kind = "running"
C28_Step ==
    LogicEnds =>
        LET code == gens'[Cur].chunk
            begin == spans[Cur].open[Len(spans[Cur].open)]
            jump == cgLast'.at
            end == Chunk_len(code)
        IN  /\ <<begin, jump>> \in spans[Cur].done
            /\ begin < jump
            /\ At(code, jump).op = (IF cgLast'.op = "and" THEN "JumpForwardIfFalsy"
                                    ELSE "JumpForwardIfTruthy")
            /\ At(code, jump + 1) = Op("Discard", 0)
            /\ <<jump + 2, end>> \in spans[Cur].done
            /\ jump + 2 < end
            /\ JumpTarget(code, jump) = end
\* C28: the code of `a and b` is the code of a, a JumpForwardIfFalsy, a
\* Discard and the code of b (JumpForwardIfTruthy for `a or b`): the jump
\* keeps a's value and skips b, falling through discards a's value and runs
\* b; the jump lands on the first offset after b's code.
C28_ShortCircuit == [][C28_Step]_vars
\* `a and b` and `a or b` were both compiled in one script.
C28_Witness ==
    /\ cgLast.op \in LogicKinds
    /\ status.kind = "running"
    /\ \E i \in DOMAIN gens[Cur].chunk : gens[Cur].chunk[i].op = "JumpForwardIfFalsy"
    /\ \E i \in DOMAIN gens[Cur].chunk : gens[Cur].chunk[i].op = "JumpForwardIfTruthy"

====
